---------------------------- MODULE Spec2Model ----------------------------
(* Device protocol client engine of the AV control drivers:                *)
(*   - KramerP3000.select_input / input_status (fallback over candidates)  *)
(*   - KramerVP734.read_response / parse and the status queries            *)
(*   - KramerP3000 over TCP: Comms.recv and two concurrent callers         *)
(*   - NEC: the frames of __cmd, the decoding of responses, the operations *)
(*   - PJLink: __cmd and the power and input operations                    *)
(*   - the one-byte checksum of utils.byteops and NEC.__checksum           *)
(* Bytes objects of the text protocols are sequences of one-character      *)
(* strings; "CR" and "LF" stand for the bytes 0x0D and 0x0A.  Bytes of the *)
(* NEC protocol are integers.                                              *)
EXTENDS Integers, Sequences, FiniteSets, TLC

VARIABLES
    \* ---- KramerP3000 ----
    variant,        \* which copy of the driver: "avctls" or "drivers"
    inputs,         \* self.inputs: ordered dict, a sequence of <<name, value>>
    p_pc,           \* "idle" | "loop" | "done": position inside the running operation
    p_op,           \* "none" | "select_input" | "input_status"
    p_input_name,   \* the input_name argument of the running select_input
    p_index,        \* index into try_in_order of the next candidate
    p_sent,         \* commands written to the transport by the running operation
    p_replies,      \* each response read, with what __try_cmd made of it
    p_outcome,      \* how the operation ended: [kind, value]
    p_connection,   \* "closed" | "open"
    \* ---- KramerVP734 ----
    _power_status, _input_status, _av_mute,   \* the cached device state
    vp_inputs,      \* the members of the self.inputs Enum: a sequence of <<name, value>>
    script,         \* every byte the switcher emits during the session
    wire,           \* the bytes of script that no recv() has returned yet
    v_pc,           \* "idle" | "sent" | "done": position inside the running operation
    v_op,           \* the running operation
    v_cmd,          \* the command it wrote to the transport (<<>> if none)
    v_connection,   \* "closed" | "open"
    v_outcome,      \* how the operation ended: [kind, value]
    data,           \* what recv() returned to the operation's read_response
    slices,         \* history: the iterations of that read_response's while loop
    reads,          \* history: number of recv() calls that returned bytes
    n_slices,       \* history: number of non-empty slices read_response has examined
    n_parsed,       \* history: number of slices read_response has handed to parse()
    \* ---- KramerP3000 over TCP, two callers ----
    t_connection,   \* self.comms.connection: the socket the driver holds (0: the one __init__ closed)
    s_state,        \* per socket: "unused" | "open" | "closed" (closed by this side)
    s_peer,         \* per socket: "up" | "gone" (the switcher closed the connection)
    s_rx,           \* per socket: the responses waiting in its receive buffer
    s_pending,      \* per socket: the commands the switcher has received and not answered
    s_owner,        \* history: per socket, the caller whose open_connection created it
    t_pc,           \* per caller: position inside select_input
    t_k,            \* per caller: index into try_in_order of the current candidate
    t_insock,       \* per caller: in_socks of the running recv()
    t_buffer,       \* per caller: buffer of the running recv(), as the responses read
    t_outcome,      \* per caller: how select_input ended
    \* ---- NEC ----
    nec_inputs,     \* self.inputs: ordered dict, a sequence of <<name, value>>
    nec_pc,         \* "idle" | "sent" | "done": position inside the running operation
    nec_op,         \* the running operation
    nec_arg,        \* its argument (input name, lamp) or None
    nec_sent,       \* the frames written to the transport by the running operation
    nec_results,    \* the responses recv() returned to the running operation
    nec_connection, \* "closed" | "open"
    nec_outcome,    \* how the operation ended: [kind, value, detail]
    \* ---- PJLink
    pj_pc,          \* "idle" | "sent" (in the first recv) | "junk" (in the second) | "done"
    pj_inputs,      \* self.inputs
    pj_op,          \* the operation called
    pj_arg,         \* input_name
    pj_sent,        \* the frames sent by the running operation
    pj_recvd,       \* what the recv() calls returned: junk_data, then result
    pj_connection,  \* "closed" | "open"
    pj_outcome,     \* how the operation ended: [kind, value]
    \* ---- checksum
    ck_orig,        \* the bytes of a frame before its checksum byte
    ck_orig_sum,    \* their checksum
    ck_vals,        \* the same bytes, of which one may have been replaced
    ck_sum,         \* their checksum
    \* ---- NEC (drivers/projector/NEC.py), select_input
    si_pc,          \* "idle" | "first" (in the first __cmd) | "again" (in the second) | "done"
    si_input,       \* input_: the name of the member of Input passed
    si_sent,        \* the frames sent by the running call
    si_results,     \* what recv() returned to each __cmd
    si_outcome,     \* how the call ended: [kind, value, detail]
    \* ---- merge_dicts
    md_first,       \* the first dict
    md_second,      \* the second dict
    md_merged,      \* what merge_dicts returned for them
    \* ---- SamsungExLink.__checksum
    ex_cmd_bytes,   \* cmd_bytes of __cmd before the checksum is appended
    ex_out,         \* what __checksum did with them: [kind, value]
    \* ---- KramerP3000.select_input over TCP with unsolicited messages
    u_pc,           \* "idle" | "reset" | "send" | "recv" | "done"
    u_k,            \* index of the candidate command being tried
    u_rx,           \* the messages waiting in the socket: [src, bytes]
    u_pending,      \* the commands the switcher has received and not answered
    u_buffer,       \* for each command, the messages Comms.recv returned for it
    u_acks,         \* the switcher's answer to each command it has answered
    u_outcome,      \* how select_input ended: [kind, value]
    \* ---- SerialAsyncIOReaderWriter (extra/VP734_async_serial.py)
    as_buffer,      \* self.read_buffer
    as_todo,        \* the bytes the device has still to send
    as_received,    \* the bytes handed to data_received so far
    as_msgs,        \* the responses read_response has extracted so far
    as_wpc,         \* the worker thread inside read_response
    as_wend,        \* its response_end
    as_wresp,       \* its response
    as_wlocal,      \* the value it has computed for self.read_buffer
    as_epc,         \* the event loop inside data_received
    as_elocal,      \* the value of self.read_buffer it has loaded
    as_edata        \* the data it was called with

p_vars == <<variant, inputs, p_pc, p_op, p_input_name, p_index, p_sent,
            p_replies, p_outcome, p_connection>>
v_vars == <<_power_status, _input_status, _av_mute, vp_inputs, script, wire,
            v_pc, v_op, v_cmd, v_connection, v_outcome, data, slices, reads,
            n_slices, n_parsed>>
t_vars == <<t_connection, s_state, s_peer, s_rx, s_pending, s_owner,
            t_pc, t_k, t_insock, t_buffer, t_outcome>>
\* the state of the parts that follow KramerP3000 and KramerVP734
nec_vars == <<nec_inputs, nec_pc, nec_op, nec_arg, nec_sent, nec_results,
              nec_connection, nec_outcome>>
pj_vars == <<pj_inputs, pj_pc, pj_op, pj_arg, pj_sent, pj_recvd, pj_connection, pj_outcome>>
ck_vars == <<ck_orig, ck_orig_sum, ck_vals, ck_sum>>
si_vars == <<si_pc, si_input, si_sent, si_results, si_outcome>>
md_vars == <<md_first, md_second, md_merged>>
ex_vars == <<ex_cmd_bytes, ex_out>>
u_vars == <<u_pc, u_k, u_rx, u_pending, u_buffer, u_acks, u_outcome>>
as_vars == <<as_buffer, as_todo, as_received, as_msgs, as_wpc, as_wend, as_wresp,
             as_wlocal, as_epc, as_elocal, as_edata>>
\* the parts added last
y_vars == <<ex_vars, u_vars, as_vars>>
x_vars == <<t_vars, nec_vars, pj_vars, ck_vars, si_vars, md_vars, y_vars>>
\* what the steps of one part leave alone
tcp_rest == <<p_vars, v_vars, nec_vars, pj_vars, ck_vars, si_vars, md_vars, y_vars>>
nec_rest == <<p_vars, v_vars, t_vars, pj_vars, ck_vars, si_vars, md_vars, y_vars>>
pj_rest == <<p_vars, v_vars, t_vars, nec_vars, ck_vars, si_vars, md_vars, y_vars>>
ck_rest == <<p_vars, v_vars, t_vars, nec_vars, pj_vars, si_vars, md_vars, y_vars>>
si_rest == <<p_vars, v_vars, t_vars, nec_vars, pj_vars, ck_vars, md_vars, y_vars>>
md_rest == <<p_vars, v_vars, t_vars, nec_vars, pj_vars, ck_vars, si_vars, y_vars>>
z_vars == <<p_vars, v_vars, t_vars, nec_vars, pj_vars, ck_vars, si_vars, md_vars>>
ex_rest == <<z_vars, u_vars, as_vars>>
u_rest == <<z_vars, ex_vars, as_vars>>
as_rest == <<z_vars, ex_vars, u_vars>>
vars == <<p_vars, v_vars, x_vars>>

None == "None"

\* the callers that use one driver instance (two web requests)
Callers == {1, 2}

\* the most sockets open_connection creates in one run
MaxSockets == 2

\* no caller has used the TCP driver yet
TcpIdle ==
    /\ t_connection = 0
    /\ s_state = [s \in 1..MaxSockets |-> "unused"]
    /\ s_peer = [s \in 1..MaxSockets |-> "up"]
    /\ s_rx = [s \in 1..MaxSockets |-> <<>>]
    /\ s_pending = [s \in 1..MaxSockets |-> <<>>]
    /\ s_owner = [s \in 1..MaxSockets |-> 0]
    /\ t_pc = [t \in Callers |-> "idle"]
    /\ t_k = [t \in Callers |-> 1]
    /\ t_insock = [t \in Callers |-> 0]
    /\ t_buffer = [t \in Callers |-> <<>>]
    /\ t_outcome = [t \in Callers |-> [kind |-> "none", value |-> "None"]]

\* no NEC driver has been constructed
NECIdle ==
    /\ nec_inputs = <<>>
    /\ nec_pc = "idle"
    /\ nec_op = "none"
    /\ nec_arg = None
    /\ nec_sent = <<>>
    /\ nec_results = <<>>
    /\ nec_connection = "closed"
    /\ nec_outcome = [kind |-> "none", value |-> None, detail |-> <<>>]

\* no PJLink driver has been constructed
PJIdle ==
    /\ pj_inputs = <<>>
    /\ pj_pc = "idle"
    /\ pj_op = "none"
    /\ pj_arg = None
    /\ pj_sent = <<>>
    /\ pj_recvd = <<>>
    /\ pj_connection = "closed"
    /\ pj_outcome = [kind |-> "none", value |-> None]

\* no checksum is being computed
CkIdle ==
    /\ ck_orig = <<>>
    /\ ck_orig_sum = 0
    /\ ck_vals = <<>>
    /\ ck_sum = 0

\* NEC.select_input of drivers/projector/NEC.py has not been called
SiIdle ==
    /\ si_pc = "idle"
    /\ si_input = None
    /\ si_sent = <<>>
    /\ si_results = <<>>
    /\ si_outcome = [kind |-> "none", value |-> None, detail |-> <<>>]

\* no dicts are being merged
MdIdle ==
    /\ md_first = <<>>
    /\ md_second = <<>>
    /\ md_merged = <<>>

\* SamsungExLink.__checksum has not been called
ExIdle ==
    /\ ex_cmd_bytes = <<>>
    /\ ex_out = [kind |-> "none", value |-> <<>>]

\* KramerP3000.select_input has not been called on the connection with
\* unsolicited messages
UIdle ==
    /\ u_pc = "idle"
    /\ u_k = 1
    /\ u_rx = <<>>
    /\ u_pending = <<>>
    /\ u_buffer = <<>>
    /\ u_acks = <<>>
    /\ u_outcome = [kind |-> "none", value |-> "None"]

\* the asynchronous reader has not been started
AsIdle ==
    /\ as_buffer = <<>>
    /\ as_todo = <<>>
    /\ as_received = <<>>
    /\ as_msgs = <<>>
    /\ as_wpc = "idle"
    /\ as_wend = 0
    /\ as_wresp = <<>>
    /\ as_wlocal = <<>>
    /\ as_epc = "idle"
    /\ as_elocal = <<>>
    /\ as_edata = <<>>

\* the parts added last are not in use
LastIdle == ExIdle /\ UIdle /\ AsIdle

\* the parts before them are not in use
OthersIdleButLast == TcpIdle /\ NECIdle /\ PJIdle /\ CkIdle /\ SiIdle /\ MdIdle

\* the parts that follow KramerP3000 and KramerVP734 are not in use
OthersIdle == TcpIdle /\ NECIdle /\ PJIdle /\ CkIdle /\ SiIdle /\ MdIdle /\ LastIdle

-----------------------------------------------------------------------------
(* bytes / str helpers, as the Python built-ins compute them *)

\* b[i:i+len(pat)] == pat   (1-based i)
MatchAt(s, pat, i) ==
    /\ i >= 1
    /\ i + Len(pat) - 1 <= Len(s)
    /\ \A k \in 1..Len(pat) : s[i + k - 1] = pat[k]

\* bytes.find(pat) from offset i on, 1-based; 0 when absent
RECURSIVE FindFrom(_, _, _)
FindFrom(s, pat, i) ==
    IF i + Len(pat) - 1 > Len(s) THEN 0
    ELSE IF MatchAt(s, pat, i) THEN i
    ELSE FindFrom(s, pat, i + 1)

Find(s, pat) == FindFrom(s, pat, 1)

\* pat in s
Contains(s, pat) == pat = <<>> \/ Find(s, pat) # 0

startswith(s, pat) == MatchAt(s, pat, 1)

Whitespace == {" ", "TAB", "LF", "CR", "VT", "FF"}
Digits == {"0", "1", "2", "3", "4", "5", "6", "7", "8", "9"}

\* bytes.split(sep): the parts between the occurrences of sep, left to right
RECURSIVE SplitOn(_, _)
SplitOn(s, sep) ==
    LET i == Find(s, sep) IN
    IF i = 0 THEN <<s>>
    ELSE <<SubSeq(s, 1, i - 1)>> \o SplitOn(SubSeq(s, i + Len(sep), Len(s)), sep)

\* bytes.split(): the maximal runs of non-whitespace bytes
RECURSIVE SplitWs(_)
SplitWs(s) ==
    IF s = <<>> THEN <<>>
    ELSE IF s[1] \in Whitespace THEN SplitWs(Tail(s))
    ELSE LET ends == {j \in 1..Len(s) : j = Len(s) \/ s[j + 1] \in Whitespace}
             e == CHOOSE j \in ends : \A k \in ends : j <= k
         IN <<SubSeq(s, 1, e)>> \o SplitWs(SubSeq(s, e + 1, Len(s)))

DigitVal(c) ==
    CASE c = "0" -> 0 [] c = "1" -> 1 [] c = "2" -> 2 [] c = "3" -> 3
      [] c = "4" -> 4 [] c = "5" -> 5 [] c = "6" -> 6 [] c = "7" -> 7
      [] c = "8" -> 8 [] c = "9" -> 9

RECURSIVE DecVal(_)
DecVal(t) == IF t = <<>> THEN 0
             ELSE 10 * DecVal(SubSeq(t, 1, Len(t) - 1)) + DigitVal(t[Len(t)])

AllDigits(t) == t # <<>> /\ \A k \in 1..Len(t) : t[k] \in Digits

\* int(token) succeeds: an optional sign and decimal digits
IsInt(t) ==
    \/ AllDigits(t)
    \/ Len(t) > 1 /\ t[1] \in {"-", "+"} /\ AllDigits(Tail(t))

\* int(token), for a token with IsInt(token)
IntOf(t) ==
    IF t[1] = "-" THEN 0 - DecVal(Tail(t))
    ELSE IF t[1] = "+" THEN DecVal(Tail(t))
    ELSE DecVal(t)

\* re.search(rb'ERR\s*<code>', s)
ErrSearch(s, code) ==
    \E i \in 1..Len(s) :
        /\ MatchAt(s, <<"E", "R", "R">>, i)
        /\ \E j \in (i + 3)..Len(s) :
              /\ \A k \in (i + 3)..(j - 1) : s[k] \in Whitespace
              /\ MatchAt(s, code, j)

-----------------------------------------------------------------------------
(* utils *)

keys(d) == [i \in 1..Len(d) |-> d[i][1]]
values(d) == [i \in 1..Len(d) |-> d[i][2]]
HasKey(d, k) == \E i \in 1..Len(d) : d[i][1] = k
\* d[k], for a key d has
Get(d, k) == d[CHOOSE i \in 1..Len(d) : d[i][1] = k][2]

\* key_list[value_list.index(value)]: the first key holding the value
key_for_value(d, value) ==
    d[CHOOSE i \in 1..Len(d) :
        /\ d[i][2] = value
        /\ \A j \in 1..(i - 1) : d[j][2] # value][1]

\* {**first, **second}: a merge in which the second dict wins
merge_dicts_update(first, second) ==
    [i \in 1..Len(first) |->
        IF HasKey(second, first[i][1])
        THEN <<first[i][1], Get(second, first[i][1])>>
        ELSE first[i]]
    \o SelectSeq(second, LAMBDA p : ~HasKey(first, p[1]))

\* merge_dicts(first, second): the items of first whose key second lacks,
\* then the keys of second in its order, with first's value where it has one
merge_dicts(first, second) ==
    SelectSeq(first, LAMBDA p : ~HasKey(second, p[1]))
    \o [i \in 1..Len(second) |->
          IF HasKey(first, second[i][1])
          THEN <<second[i][1], Get(first, second[i][1])>>
          ELSE second[i]]

-----------------------------------------------------------------------------
(* KramerP3000 *)

_default_inputs == << <<"1", <<"1">> >>, <<"2", <<"2">> >> >>
_default_outputs == << <<"ALL", <<"*">> >> >>

\* an inputs= mapping a room configuration passes to the constructor
UserInputs == << <<"COMPUTER", <<"1">> >>, <<"APPLE_TV", <<"2">> >> >>

\* self.inputs after __init__, without and with a custom mapping
P3000Inputs == {_default_inputs, merge_dicts(UserInputs, _default_inputs)}

\* names a caller may pass to select_input ("BOGUS" is in no mapping)
InputNames == {"1", "2", "COMPUTER", "BOGUS"}

\* the three candidates of select_input, in the order of try_in_order
select_try_in_order(in_value, out_value) ==
    << <<"#", "R", "O", "U", "T", "E", " ", "1", ",">> \o out_value \o <<",">> \o in_value \o <<"CR">>,
       <<"#", "A", "V", " ">> \o in_value \o <<">">> \o out_value \o <<"CR">>,
       <<"#", "V", "I", "D", " ">> \o in_value \o <<">">> \o out_value \o <<"CR">> >>

\* the five candidates of input_status
status_try_in_order ==
    << <<"#", "R", "O", "U", "T", "E", "?", " ", "1", ",", "*", "CR">>,
       <<"#", "A", "V", "?", " ", "*", "CR">>,
       <<"#", "V", "I", "D", "?", " ", "*", "CR">>,
       <<"#", "A", "V", "?", " ", "1", "CR">>,
       <<"#", "V", "I", "D", "?", " ", "1", "CR">> >>

\* responses the switcher may give (the last one is an empty read)
DeviceReplies ==
    { <<"~", "0", "1", "@", "R", "O", "U", "T", "E", " ", "1", ",", "1", ",", "2", "CR", "LF">>,
      <<"~", "0", "1", "@", "V", "I", "D", " ", "2", ">", "1", "CR", "LF">>,
      <<"~", "0", "1", "@", "V", "I", "D", " ", "x", "CR", "LF">>,
      <<"~", "0", "1", "@", "O", "K", "CR", "LF">>,
      <<"~", "0", "1", "@", "R", "O", "U", "T", "E", " ", "E", "R", "R", " ", "0", "0", "2", "CR", "LF">>,
      <<"~", "0", "1", "@", "E", "R", "R", "0", "0", "2", "CR", "LF">>,
      <<"~", "0", "1", "@", "R", "O", "U", "T", "E", " ", "E", "R", "R", " ", "0", "0", "3", "CR", "LF">>,
      <<"~", "0", "1", "@", "E", "R", "R", " ", "0", "0", "1", "CR", "LF">>,
      <<"~", "0", "1", "@", "E", "R", "R", " ", "0", "0", "4", "CR", "LF">>,
      <<>> }


\* send() or recv() raising an OSError instead of returning
SendError == <<"send raises">>
RecvError == <<"recv raises">>

ERR == <<"E", "R", "R">>

\* __try_cmd with the codes of SYNTAX and PARAM_OUT_OF_RANGE exchanged
__try_cmd_swapped(response) ==
    IF response = <<>> THEN "IOError"
    ELSE IF ErrSearch(response, <<"0", "0", "2">>) THEN "CMD_UNAVAILABLE"
    ELSE IF ErrSearch(response, <<"0", "0", "1">>) THEN "PARAM_OUT_OF_RANGE"
    ELSE IF ErrSearch(response, <<"0", "0", "3">>) THEN "SYNTAX"
    ELSE "response"

\* __try_cmd (avctls): what it returns, or "IOError" when it raises on an empty response
__try_cmd(response) ==
    IF response = <<>> THEN "IOError"
    ELSE IF ErrSearch(response, <<"0", "0", "2">>) THEN "CMD_UNAVAILABLE"
    ELSE IF ErrSearch(response, <<"0", "0", "3">>) THEN "PARAM_OUT_OF_RANGE"
    ELSE IF ErrSearch(response, <<"0", "0", "1">>) THEN "SYNTAX"
    ELSE "response"

\* _try_cmd (drivers): the first member of the tuple it returns
_try_cmd(response) ==
    IF ErrSearch(response, <<"0", "0", "2">>) THEN "CMD_UNAVAILABLE"
    ELSE IF ErrSearch(response, <<"0", "0", "3">>) THEN "PARAM_OUT_OF_RANGE"
    ELSE IF ErrSearch(response, <<"0", "0", "1">>) THEN "SYNTAX"
    ELSE "True"

try_cmd(v, response) ==
    IF v = "avctls" THEN __try_cmd(response) ELSE _try_cmd(response)

\* select_input_branch with "parameter out of range" treated like "command not
\* available": the loop goes on to the next candidate
select_input_branch_fallthrough(v, result, response) ==
    IF result = "IOError" THEN "IOError"
    ELSE IF result \in {"CMD_UNAVAILABLE", "PARAM_OUT_OF_RANGE"} THEN "continue"
    ELSE IF result = "SYNTAX" THEN "SyntaxError"
    ELSE IF Contains(response, ERR) THEN "Exception"
    ELSE "return"

\* The if/elif chain in the body of select_input's for loop: "continue", "return",
\* or the class of the exception it raises.
select_input_branch(v, result, response) ==
    IF result = "IOError" THEN "IOError"
    ELSE IF result = "CMD_UNAVAILABLE" THEN "continue"
    ELSE IF result = "PARAM_OUT_OF_RANGE" THEN "ValueError"
    ELSE IF result = "SYNTAX" THEN "SyntaxError"
    ELSE IF Contains(response, ERR) THEN "Exception"
    ELSE "return"

\* re.search(rb'~\d+@(VID|AV)\s+([0-9>,]+)\r\n', response) matches
RouteChars == Digits \cup {">", ","}
VidMatch(s) ==
    \E i \in 1..Len(s) : \E a \in (i + 1)..Len(s) :
        /\ s[i] = "~"
        /\ \A k \in (i + 1)..a : s[k] \in Digits
        /\ MatchAt(s, <<"@">>, a + 1)
        /\ \E n \in {a + 4, a + 5} :
              /\ \/ n = a + 5 /\ MatchAt(s, <<"V", "I", "D">>, a + 2)
                 \/ n = a + 4 /\ MatchAt(s, <<"A", "V">>, a + 2)
              /\ \E b \in n..Len(s) : \E c \in (b + 1)..Len(s) :
                    /\ \A k \in n..b : s[k] \in Whitespace
                    /\ \A k \in (b + 1)..c : s[k] \in RouteChars
                    /\ MatchAt(s, <<"CR", "LF">>, c + 1)

\* The if/elif chain in the body of input_status's for loop.  A response that
\* reports no error but holds no routing information falls out of the chain and
\* the loop goes on to the next candidate.
input_status_branch(v, result, response) ==
    IF result = "IOError" THEN "IOError"
    ELSE IF result = "CMD_UNAVAILABLE" THEN "continue"
    ELSE IF result = "PARAM_OUT_OF_RANGE" THEN "ValueError"
    ELSE IF result = "SYNTAX" THEN "SyntaxError"
    ELSE IF Contains(response, ERR) THEN "Exception"
    ELSE IF Contains(response, <<"R", "O", "U", "T", "E">>) THEN "return"
    ELSE IF /\ \/ Contains(response, <<"V", "I", "D">>)
               \/ Contains(response, <<"A", "V">>)
            /\ VidMatch(response) THEN "return"
    ELSE "continue"

\* select_input_except without the "raise e" of the except clause
select_input_except_swallow(v, exc) == [kind |-> "return", value |-> None]

\* What the caller of select_input gets when the body raises exc: the avctls
\* driver re-raises, the drivers/ copy logs the exception and returns None.
select_input_except(v, exc) ==
    IF v = "avctls" THEN [kind |-> "raise", value |-> exc]
    ELSE [kind |-> "return", value |-> None]

\* What the caller of input_status gets when the body raises: both copies log
\* the exception and return None.
input_status_except(v, exc) == [kind |-> "return", value |-> None]

\* The value a successful select_input returns
select_input_value(v, d, input_name) ==
    IF v = "avctls" THEN key_for_value(d, Get(d, input_name)) ELSE input_name

NoOutcome == [kind |-> "none", value |-> None]

\* the candidates of the running operation
try_in_order ==
    IF p_op = "input_status" THEN status_try_in_order
    ELSE IF variant = "avctls"
         THEN select_try_in_order(Get(inputs, p_input_name), Get(_default_outputs, "ALL"))
         ELSE select_try_in_order(<<p_input_name>>, <<"*">>)

P3000Start(op, name, pc, outcome, conn) ==
    /\ p_op' = op
    /\ p_input_name' = name
    /\ p_index' = 1
    /\ p_sent' = <<>>
    /\ p_replies' = <<>>
    /\ p_pc' = pc
    /\ p_outcome' = outcome
    /\ p_connection' = conn
    /\ UNCHANGED <<variant, inputs>>

\* select_input up to the for loop: the lookups, open_connection, reset_input_buffer
SelectInputCall(input_name, opened) ==
    /\ p_pc = "idle"
    /\ variant = "drivers" => input_name \in {"1", "2"}
    /\ IF variant = "avctls" /\ ~HasKey(inputs, input_name)
       THEN P3000Start("select_input", input_name, "done",
                       select_input_except(variant, "KeyError"), "closed")
       ELSE IF ~opened
       THEN P3000Start("select_input", input_name, "done",
                       select_input_except(variant, "OSError"), "closed")
       ELSE P3000Start("select_input", input_name, "loop", NoOutcome, "open")
    /\ UNCHANGED <<v_vars, x_vars>>

\* input_status up to the for loop
InputStatusCall(opened) ==
    /\ p_pc = "idle"
    /\ IF ~opened
       THEN P3000Start("input_status", None, "done",
                       input_status_except(variant, "OSError"), "closed")
       ELSE P3000Start("input_status", None, "loop", NoOutcome, "open")
    /\ UNCHANGED <<v_vars, x_vars>>

\* One iteration of the for loop of select_input or input_status: the candidate
\* is sent, the response read and classified, and the loop continues, returns or
\* raises; leaving the loop runs the finally clause (close_connection).
TryCmd(response) ==
    /\ p_pc = "loop"
    /\ LET cmd == try_in_order[p_index]
           result == IF response \in {SendError, RecvError} THEN "OSError"
                     ELSE try_cmd(variant, response)
           branch == IF result = "OSError" THEN "OSError"
                     ELSE IF p_op = "select_input"
                     THEN select_input_branch(variant, result, response)
                     ELSE input_status_branch(variant, result, response)
           last == p_index = Len(try_in_order)
       IN /\ p_sent' = IF response = SendError THEN p_sent ELSE Append(p_sent, cmd)
          /\ p_replies' = Append(p_replies, [result |-> result, response |-> response])
          /\ IF branch = "continue" /\ ~last
             THEN /\ p_index' = p_index + 1
                  /\ UNCHANGED <<p_pc, p_outcome, p_connection>>
             ELSE /\ p_pc' = "done"
                  /\ p_connection' = "closed"
                  /\ p_index' = p_index
                  /\ p_outcome' =
                        IF branch = "continue"
                        THEN [kind |-> "return", value |-> None]
                        ELSE IF branch = "return"
                        THEN [kind |-> "return",
                              value |-> IF p_op = "select_input"
                                        THEN select_input_value(variant, inputs, p_input_name)
                                        ELSE "routes"]
                        ELSE IF p_op = "select_input"
                        THEN select_input_except(variant, branch)
                        ELSE input_status_except(variant, branch)
    /\ UNCHANGED <<variant, inputs, p_op, p_input_name>>
    /\ UNCHANGED <<v_vars, x_vars>>

\* the caller takes the result; the driver is ready for the next call
P3000Return ==
    /\ p_pc = "done"
    /\ p_pc' = "idle"
    /\ p_op' = "none"
    /\ p_input_name' = None
    /\ p_index' = 1
    /\ p_sent' = <<>>
    /\ p_replies' = <<>>
    /\ p_outcome' = NoOutcome
    /\ UNCHANGED <<variant, inputs, p_connection>>
    /\ UNCHANGED <<v_vars, x_vars>>

VP734Idle ==
    /\ _power_status = None /\ _input_status = None /\ _av_mute = None
    /\ vp_inputs = <<>>
    /\ script = <<>> /\ wire = <<>>
    /\ v_pc = "idle" /\ v_op = "none" /\ v_cmd = <<>>
    /\ v_connection = "closed"
    /\ v_outcome = NoOutcome
    /\ data = <<>> /\ slices = <<>>
    /\ reads = 0 /\ n_slices = 0 /\ n_parsed = 0

InitP3000 ==
    /\ variant \in {"avctls", "drivers"}
    /\ inputs \in P3000Inputs
    /\ p_pc = "idle"
    /\ p_op = "none"
    /\ p_input_name = None
    /\ p_index = 1
    /\ p_sent = <<>>
    /\ p_replies = <<>>
    /\ p_outcome = NoOutcome
    /\ p_connection = "closed"
    /\ VP734Idle
    /\ OthersIdle

NextP3000 ==
    \/ \E n \in InputNames, opened \in BOOLEAN : SelectInputCall(n, opened)
    \/ \E opened \in BOOLEAN : InputStatusCall(opened)
    \/ \E r \in DeviceReplies \cup {SendError, RecvError} : TryCmd(r)
    \/ P3000Return

SpecP3000 == InitP3000 /\ [][NextP3000]_vars

-----------------------------------------------------------------------------
(* KramerP3000: properties *)

\* the response was classified "command not available" (ERR 002)
Is002(reply) == reply.result = "CMD_UNAVAILABLE"
\* the response reported no error at all
IsSuccess(reply) ==
    /\ reply.result \in {"response", "True"}
    /\ ~Contains(reply.response, ERR)

CandidatePrefix(k) ==
    CASE k = 1 -> <<"#", "R", "O", "U", "T", "E", " ">>
      [] k = 2 -> <<"#", "A", "V", " ">>
      [] k = 3 -> <<"#", "V", "I", "D", " ">>

\* C1: select_input sends #ROUTE, #AV, #VID strictly in that order; candidate k+1
\* is sent only if the response to candidate k was classified ERR 002; after the
\* first response that is not ERR 002 nothing more is sent; and for the responses
\* ERR 002, ERR 002, success exactly three commands are sent and the call returns
\* the selected input.
C1_FallbackOrder ==
    p_op = "select_input" =>
        /\ Len(p_sent) <= 3
        /\ \A k \in 1..Len(p_sent) : startswith(p_sent[k], CandidatePrefix(k))
        /\ \A k \in 1..Len(p_sent) : k > 1 => Is002(p_replies[k - 1])
        /\ \A k \in 1..Len(p_replies) :
              ~Is002(p_replies[k]) => (k = Len(p_replies) /\ p_pc = "done")
        /\ ( /\ Len(p_replies) = 3
             /\ Is002(p_replies[1]) /\ Is002(p_replies[2]) /\ IsSuccess(p_replies[3]) )
           => /\ Len(p_sent) = 3
              /\ p_outcome.kind = "return"
              /\ IF variant = "avctls"
                 THEN /\ HasKey(inputs, p_outcome.value)
                      /\ Get(inputs, p_outcome.value) = Get(inputs, p_input_name)
                 ELSE p_outcome.value = p_input_name

C1_Witness ==
    /\ p_op = "select_input" /\ p_pc = "done"
    /\ Len(p_replies) = 3
    /\ Is002(p_replies[1]) /\ Is002(p_replies[2]) /\ IsSuccess(p_replies[3])
    /\ Len(p_sent) = 3
    /\ p_outcome.kind = "return" /\ p_outcome.value # None

\* C2: (avctls driver) if the first candidate of select_input is answered
\* ERR 003, exactly one command is sent and the caller receives an out-of-range
\* error (ValueError) instead of a normal return.
C2_OutOfRangeNoFallback ==
    ( /\ variant = "avctls" /\ p_op = "select_input"
      /\ Len(p_replies) >= 1
      /\ p_replies[1].result = "PARAM_OUT_OF_RANGE" )
    => /\ p_pc = "done"
       /\ Len(p_sent) = 1 /\ Len(p_replies) = 1
       /\ p_outcome = [kind |-> "raise", value |-> "ValueError"]

C2_Witness ==
    /\ variant = "avctls" /\ p_op = "select_input" /\ p_pc = "done"
    /\ Len(p_replies) = 1
    /\ ErrSearch(p_replies[1].response, <<"0", "0", "3">>)
    /\ p_outcome.kind = "raise"

\* C3: if every candidate of the plan is answered ERR 002, select_input and
\* input_status report an Unsupported error naming the last command tried; an
\* exhausted plan never ends in a normal return.
C3_ExhaustedReportsUnsupported ==
    ( /\ p_pc = "done"
      /\ p_op \in {"select_input", "input_status"}
      /\ p_replies # <<>>
      /\ Len(p_replies) = Len(try_in_order)
      /\ \A k \in 1..Len(p_replies) : Is002(p_replies[k]) )
    => /\ p_outcome.kind = "raise"
       /\ p_outcome.value = <<"Unsupported", try_in_order[Len(try_in_order)]>>


\* C15: when select_input or input_status ends on a response classified as an
\* error other than "command not available" (ERR 003, ERR 001, another ERR, an
\* empty read) or on an exception of the transport, the caller gets an exception,
\* not a returned value.
C15_ErrorsPropagate ==
    ( /\ p_pc = "done"
      /\ p_replies # <<>>
      /\ LET last == p_replies[Len(p_replies)]
         IN \/ last.result \in {"PARAM_OUT_OF_RANGE", "SYNTAX", "OSError", "IOError"}
            \/ /\ last.result \in {"response", "True"}
               /\ Contains(last.response, ERR) )
    => p_outcome.kind = "raise"
\* the 3-digit codes that follow 'ERR' and optional whitespace in a response
ErrCodes(s) ==
    {SubSeq(s, j, j + 2) :
        j \in {n \in 4..(Len(s) - 2) :
                /\ \A k \in n..(n + 2) : s[k] \in Digits
                /\ \E i \in 1..(n - 3) :
                      /\ MatchAt(s, ERR, i)
                      /\ \A k \in (i + 3)..(n - 1) : s[k] \in Whitespace}}

\* C21: select_input of the avctls driver classifies a response with one
\* 'ERR' token, optional whitespace and a 3-digit code as Syntax for 001
\* (SyntaxError), command not available for 002 (the next candidate is tried),
\* OutOfRange for 003 (ValueError) and an unknown error for any other code
\* (Exception); a non-empty response without 'ERR' is a success.
C21_ErrorClassification ==
    (variant = "avctls" /\ p_op = "select_input") =>
        \A k \in 1..Len(p_replies) :
            LET reply == p_replies[k]
                codes == ErrCodes(reply.response)
                ended == k = Len(p_replies) /\ p_pc = "done"
            IN (reply.result # "OSError" /\ reply.response # <<>>) =>
                /\ codes = {<<"0", "0", "1">>} =>
                      /\ reply.result = "SYNTAX"
                      /\ ended /\ p_outcome = [kind |-> "raise", value |-> "SyntaxError"]
                /\ codes = {<<"0", "0", "2">>} =>
                      /\ reply.result = "CMD_UNAVAILABLE"
                      /\ \/ p_index > k
                         \/ k = Len(try_in_order) /\ ended /\ p_outcome.kind = "return"
                /\ codes = {<<"0", "0", "3">>} =>
                      /\ reply.result = "PARAM_OUT_OF_RANGE"
                      /\ ended /\ p_outcome = [kind |-> "raise", value |-> "ValueError"]
                /\ (Cardinality(codes) = 1
                    /\ codes \cap {<<"0", "0", "1">>, <<"0", "0", "2">>, <<"0", "0", "3">>} = {}) =>
                      /\ reply.result = "response"
                      /\ ended /\ p_outcome = [kind |-> "raise", value |-> "Exception"]
                /\ ~Contains(reply.response, ERR) =>
                      /\ reply.result = "response"
                      /\ ended /\ p_outcome.kind = "return"
                      /\ p_outcome.value # None

\* the second candidate was answered 'ERR 001' after 'ERR002' on the first,
\* and the call ended with SyntaxError
C21_Witness ==
    /\ variant = "avctls" /\ p_op = "select_input" /\ p_pc = "done"
    /\ Len(p_replies) = 2
    /\ ErrCodes(p_replies[1].response) = {<<"0", "0", "2">>}
    /\ ~Contains(p_replies[1].response, <<" ", "0", "0", "2">>)
    /\ ErrCodes(p_replies[2].response) = {<<"0", "0", "1">>}
    /\ p_outcome = [kind |-> "raise", value |-> "SyntaxError"]

-----------------------------------------------------------------------------
(* KramerVP734 *)

VP734_default_inputs ==
    << <<"RGB_1", 0>>, <<"RGB_2", 1>>, <<"HDMI_1", 2>>, <<"HDMI_2", 3>>,
       <<"HDMI_3", 4>>, <<"HDMI_4", 5>>, <<"DISPLAYPORT", 6>> >>

\* an inputs= mapping a room configuration passes to the constructor: a new
\* label for value 2 and another value for the default label HDMI_2
VP734UserInputs == << <<"COMPUTER", 2>>, <<"HDMI_2", 7>> >>

\* the names and values of the Enum __init__ builds, without and with inputs=
VP734Inputs == {VP734_default_inputs, merge_dicts(VP734UserInputs, VP734_default_inputs)}

\* names a caller may pass to select_input ("BOGUS" is in no mapping)
VP734InputNames == {"HDMI_2", "BOGUS"}

\* the keys of KramerVP734.functions
functions ==
    (0..11) \cup {14} \cup (30..33) \cup (40..45) \cup (60..67) \cup (80..91)
    \cup (130..139) \cup (170..177) \cup (180..184) \cup (190..194)
    \cup (200..203) \cup {230, 231} \cup (240..244) \cup {250, 251, 262, 450, 451}

\* the keys of KramerVP734.data[func], for the functions that hold device state
data_keys(func) ==
    CASE func = 8 -> {0, 1}
      [] func = 10 -> {0, 1}
      [] func = 30 -> 0..6

\* the message terminator b'\r\n>'
Terminator == <<"CR", "LF", ">">>

\* the byte streams a session may see
Scripts ==
    { <<"Y", " ", "0", " ", "3", "0", " ", "2", "CR", "LF", ">", "Z", " ", "0", " ", "3", "0", " ", "2", "CR", "LF", ">">>,
      <<"-", "CR", "LF", ">">>,
      <<"Z", " ", "0", " ", "1", "0", " ", "0", "CR", "LF", ">", "-", "CR", "LF", ">">>,
      <<"Z", " ", "0", " ", "1", "0", " ", "1", "CR", "LF", ">", "Z", " ", "0", " ", "1", "0", " ", "0", "CR", "LF", ">">>,
      <<"Z", " ", "1", " ", "8", " ", "1", "CR", "LF", ">", "Z", " ", "0", " ", "8", " ", "0", "CR", "LF", ">">>,
      <<"Z", " ", "0", " ", "1", "0", " ", "2", "CR", "LF", ">">>,
      <<"Z", " ", "0", " ", "8", " ", "2", "CR", "LF", ">">>,
      <<"Z", " ", "0", " ", "3", "0", " ", "7", "CR", "LF", ">">>,
      <<"Z", " ", "1", " ", "3", "0", " ", "3", "CR", "LF", ">">>,
      <<"Y", " ", "0", " ", "8", " ", "1", "CR", "LF", ">", "Y", " ", "0", " ", "1", "0", " ", "1", "CR", "LF", ">">>,
      <<"Z", " ", "0", " ", "6", "0", " ", "5", "0", "CR", "LF", ">">>,
      <<"Z", " ", "0", " ", "9", "9", "9", " ", "1", "CR", "LF", ">">>,
      <<"Z", " ", "0", " ", "x", " ", "1", "CR", "LF", ">">>,
      <<"Z", " ", "0", " ", "3", "0", " ", "4", "CR", "LF", ">", "Z", " ", "0", " ", "1", "1", " ", "1", "CR", "LF", ">">> }

bool(param) == IF param # 0 THEN "True" ELSE "False"

\* the Enum has a member with that value
HasValue(d, value) == \E i \in 1..Len(d) : d[i][2] = value

\* the cached device state as one record
VPState == [power |-> _power_status, input |-> _input_status, mute |-> _av_mute]

Unchanged(st) == [st |-> st, raised |-> None]
Raised(st, exc) == [st |-> st, raised |-> exc]

\* parse_state with the fields of functions 8 and 10 exchanged
parse_state_swapped(func, param, st, inp) ==
    IF func = 8 THEN Unchanged([st EXCEPT !.power = bool(param)])
    ELSE IF func = 10 THEN Unchanged([st EXCEPT !.mute = bool(param)])
    ELSE IF func = 30
    THEN IF HasValue(inp, param)
         THEN Unchanged([st EXCEPT !.input = key_for_value(inp, param)])
         ELSE Raised(st, "ValueError")
    ELSE Unchanged(st)

\* The branch of parse() that tracks the switcher's state, entered with a
\* param that is a key of data[func]: func 8 sets _av_mute, func 10 sets
\* _power_status, func 30 sets _input_status to self.inputs(param), the first
\* member with that value (ValueError if there is none).
parse_state(func, param, st, inp) ==
    IF func = 8 THEN Unchanged([st EXCEPT !.mute = bool(param)])
    ELSE IF func = 10 THEN Unchanged([st EXCEPT !.power = bool(param)])
    ELSE IF func = 30
    THEN IF HasValue(inp, param)
         THEN Unchanged([st EXCEPT !.input = key_for_value(inp, param)])
         ELSE Raised(st, "ValueError")
    ELSE Unchanged(st)

\* parse_dash taking the bare "-" for "power is off"
parse_dash_off(st) == Unchanged([st EXCEPT !.power = "False"])

\* The branch of parse() for the response "-": the power is on
parse_dash(st) == Unchanged([st EXCEPT !.power = "True"])

\* parse(data) run on the cached state st with the Enum members inp: the state it
\* leaves and the exception it raises, if any.  Logging is left out.
parse(d, st, inp) ==
    IF Contains(d, <<":">>) THEN Unchanged(st)
    ELSE IF Contains(d, <<"V", "T", "R">>) THEN Unchanged(st)
    ELSE
    LET data_parts == SplitWs(d) IN
    IF Len(data_parts) > 2 /\ ~IsInt(data_parts[3]) THEN Raised(st, "ValueError")
    ELSE IF Len(data_parts) > 2 /\ IntOf(data_parts[3]) \in functions THEN
        LET func == IntOf(data_parts[3]) IN
        IF Len(data_parts) > 3 THEN
            IF Len(data_parts) = 7 THEN Unchanged(st)
            ELSE IF ~IsInt(data_parts[4]) THEN Raised(st, "ValueError")
            ELSE
            LET param == IntOf(data_parts[4]) IN
            IF Len(data_parts) > 4 /\ func = 177 THEN
                IF ~IsInt(data_parts[5]) THEN Raised(st, "ValueError")
                ELSE IF param \notin 0..6 \/ IntOf(data_parts[5]) \notin 0..7
                THEN Raised(st, "KeyError")
                ELSE Unchanged(st)
            ELSE IF func \in {8, 10, 30} /\ param \in data_keys(func)
            THEN parse_state(func, param, st, inp)
            ELSE Unchanged(st)
        ELSE Unchanged(st)
    ELSE IF Len(data_parts) = 1 /\ data_parts[1] = <<"-">> THEN parse_dash(st)
    ELSE Unchanged(st)

\* The test read_response makes before it hands a slice to parse(): the slice
\* starts with Z, or is "-", or has more than 3 fields of which the third is 30
wanted(response) ==
    LET response_parts == SplitWs(response) IN
    \/ startswith(response, <<"Z">>)
    \/ response = <<"-">>
    \/ Len(response_parts) > 3 /\ response_parts[3] = <<"3", "0">>

\* The while loop of read_response from data_parts[index] on.  at is the offset
\* in the stream of the slice's first byte.  The result holds the cached state
\* the loop leaves, the exception that ended it (if any) and one entry per
\* iteration.
RECURSIVE read_loop(_, _, _, _, _, _)
read_loop(data_parts, index, at, st, inp, log) ==
    IF index > Len(data_parts) THEN [st |-> st, raised |-> None, log |-> log]
    ELSE
    LET response == data_parts[index]
        handed == wanted(response)
        r == IF handed THEN parse(response, st, inp) ELSE Unchanged(st)
        entry == [data |-> response,
                  at |-> at,
                  handed |-> handed,
                  pre |-> st,
                  post |-> r.st,
                  raised |-> r.raised]
    IN IF r.raised # None
       THEN [st |-> r.st, raised |-> r.raised, log |-> Append(log, entry)]
       ELSE read_loop(data_parts, index + 1, at + Len(response) + Len(Terminator),
                      r.st, inp, Append(log, entry))

\* read_response() on the bytes recv() returned, the first of them at offset at
\* of the stream.  Nothing of received outlives the call.
read_response(received, at, st, inp) ==
    read_loop(SplitOn(received, Terminator), 1, at, st, inp, <<>>)

\* str(n).encode() for the values an input may have
str(n) ==
    LET digit(k) == CASE k = 0 -> "0" [] k = 1 -> "1" [] k = 2 -> "2" [] k = 3 -> "3"
                      [] k = 4 -> "4" [] k = 5 -> "5" [] k = 6 -> "6" [] k = 7 -> "7"
                      [] k = 8 -> "8" [] k = 9 -> "9"
    IN IF n < 10 THEN <<digit(n)>> ELSE <<digit(n \div 10), digit(n % 10)>>

\* the most recv() calls that return bytes in one session
MaxReads == 3

\* the bytes of the stream recv() has returned so far
consumed == SubSeq(script, 1, Len(script) - Len(wire))

\* Call that, besides sending, writes what the command asks for into the cache
\* (power_on caches True, power_off caches False) without waiting for a report
Call_optimistic(op, cmd, sent) ==
    /\ v_pc = "idle"
    /\ v_op' = op
    /\ IF sent
       THEN /\ v_pc' = "sent"
            /\ v_cmd' = cmd
            /\ v_connection' = "open"
            /\ v_outcome' = NoOutcome
       ELSE /\ v_pc' = "done"
            /\ v_cmd' = <<>>
            /\ v_connection' = "closed"
            /\ v_outcome' = [kind |-> "raise", value |-> "OSError"]
    /\ _power_status' = CASE op = "power_on" -> "True"
                          [] op = "power_off" -> "False"
                          [] OTHER -> _power_status
    /\ UNCHANGED <<_input_status, _av_mute, vp_inputs, script, wire,
                   data, slices, reads, n_slices, n_parsed>>
    /\ UNCHANGED <<p_vars, x_vars>>

\* The operation up to sleep(): open_connection and send(cmd).  sent = FALSE is
\* one of them raising OSError: the except clause re-raises, the finally clause
\* closes the connection.
Call(op, cmd, sent) ==
    /\ v_pc = "idle"
    /\ v_op' = op
    /\ IF sent
       THEN /\ v_pc' = "sent"
            /\ v_cmd' = cmd
            /\ v_connection' = "open"
            /\ v_outcome' = NoOutcome
       ELSE /\ v_pc' = "done"
            /\ v_cmd' = <<>>
            /\ v_connection' = "closed"
            /\ v_outcome' = [kind |-> "raise", value |-> "OSError"]
    /\ UNCHANGED <<_power_status, _input_status, _av_mute, vp_inputs, script, wire,
                   data, slices, reads, n_slices, n_parsed>>
    /\ UNCHANGED <<p_vars, x_vars>>

power_on(sent) ==
    Call("power_on", <<"Y", " ", "0", " ", "1", "0", " ", "1", "CR">>, sent)

power_off(sent) ==
    Call("power_off", <<"Y", " ", "0", " ", "1", "0", " ", "0", "CR">>, sent)

\* select_input without the membership test: the command is sent for any name
select_input_unchecked(input_, sent) ==
    Call("select_input", <<"Y", " ", "0", " ", "3", "0", " ", "0", "CR">>, sent)

\* select_input: a name that is no member raises KeyError before anything is opened
select_input(input_, sent) ==
    IF HasKey(vp_inputs, input_)
    THEN Call("select_input",
              <<"Y", " ", "0", " ", "3", "0", " ">> \o str(Get(vp_inputs, input_)) \o <<"CR">>,
              sent)
    ELSE /\ v_pc = "idle"
         /\ sent
         /\ v_op' = "select_input"
         /\ v_pc' = "done"
         /\ v_cmd' = <<>>
         /\ v_connection' = "closed"
         /\ v_outcome' = [kind |-> "raise", value |-> "KeyError"]
         /\ UNCHANGED <<_power_status, _input_status, _av_mute, vp_inputs, script, wire,
                        data, slices, reads, n_slices, n_parsed>>
         /\ UNCHANGED <<p_vars, x_vars>>

get_power_status(sent) ==
    Call("get_power_status", <<"Y", " ", "1", " ", "1", "0", "CR">>, sent)

get_input_status(sent) ==
    Call("get_input_status", <<"Y", " ", "1", " ", "3", "0", "CR">>, sent)

get_av_mute(sent) ==
    Call("get_av_mute", <<"Y", " ", "1", " ", "8", "CR">>, sent)

\* the cached field the operation returns after read_response
returns(op, st) ==
    CASE op \in {"get_power_status"} -> st.power
      [] op \in {"get_input_status", "select_input"} -> st.input
      [] op \in {"get_av_mute"} -> st.mute
      [] OTHER -> None

\* What recv() does: it raises OSError; it raises socket.timeout (a socket on
\* which nothing arrived within tcp_timeout); or it returns the next n bytes of
\* the stream.  n = 0 is a serial read that timed out, or a socket whose peer
\* closed the connection.
IOOutcomes ==
    {[kind |-> k, n |-> 0] : k \in {"recv_error", "timeout"}}
    \cup {[kind |-> "data", n |-> k] :
            k \in {j \in 0..Len(wire) : j > 0 => reads < MaxReads}}

\* The rest of the operation: sleep(1.0), read_response() and the return of the
\* cached field; an exception from recv() or parse() is re-raised by the except
\* clause; the finally clause closes the connection.
Receive(io) ==
    /\ v_pc = "sent"
    /\ v_pc' = "done"
    /\ v_connection' = "closed"
    /\ IF io.kind # "data"
       THEN /\ v_outcome' = [kind |-> "raise",
                             value |-> IF io.kind = "timeout" THEN "timeout" ELSE "OSError"]
            /\ UNCHANGED <<_power_status, _input_status, _av_mute, wire, data, slices,
                           reads, n_slices, n_parsed>>
       ELSE LET received == SubSeq(wire, 1, io.n)
                r == read_response(received, Len(consumed) + 1, VPState, vp_inputs)
            IN /\ wire' = SubSeq(wire, io.n + 1, Len(wire))
               /\ data' = received
               /\ reads' = IF io.n > 0 THEN reads + 1 ELSE reads
               /\ slices' = r.log
               /\ n_slices' = n_slices + Len(SelectSeq(r.log, LAMBDA e : e.data # <<>>))
               /\ n_parsed' = n_parsed + Len(SelectSeq(r.log, LAMBDA e : e.handed))
               /\ _power_status' = r.st.power
               /\ _input_status' = r.st.input
               /\ _av_mute' = r.st.mute
               /\ v_outcome' =
                     IF r.raised # None THEN [kind |-> "raise", value |-> r.raised]
                     ELSE [kind |-> "return", value |-> returns(v_op, r.st)]
    /\ UNCHANGED <<vp_inputs, script, v_op, v_cmd>>
    /\ UNCHANGED <<p_vars, x_vars>>

\* the caller takes the result; the driver is ready for the next call
VP734Return ==
    /\ v_pc = "done"
    /\ v_pc' = "idle"
    /\ v_op' = "none"
    /\ v_cmd' = <<>>
    /\ v_outcome' = NoOutcome
    /\ data' = <<>>
    /\ slices' = <<>>
    /\ UNCHANGED <<_power_status, _input_status, _av_mute, vp_inputs, script, wire,
                   v_connection, reads, n_slices, n_parsed>>
    /\ UNCHANGED <<p_vars, x_vars>>

P3000Idle ==
    /\ variant = "avctls"
    /\ inputs = _default_inputs
    /\ p_pc = "idle"
    /\ p_op = "none"
    /\ p_input_name = None
    /\ p_index = 1
    /\ p_sent = <<>>
    /\ p_replies = <<>>
    /\ p_outcome = NoOutcome
    /\ p_connection = "closed"

InitVP734 ==
    /\ _power_status = None /\ _input_status = None /\ _av_mute = None
    /\ vp_inputs \in VP734Inputs
    /\ script \in Scripts
    /\ wire = script
    /\ v_pc = "idle" /\ v_op = "none" /\ v_cmd = <<>>
    /\ v_connection = "closed"
    /\ v_outcome = NoOutcome
    /\ data = <<>> /\ slices = <<>>
    /\ reads = 0 /\ n_slices = 0 /\ n_parsed = 0
    /\ P3000Idle
    /\ OthersIdle

NextVP734 ==
    \/ \E sent \in BOOLEAN : power_on(sent)
    \/ \E sent \in BOOLEAN : power_off(sent)
    \/ \E sent \in BOOLEAN, n \in VP734InputNames : select_input(n, sent)
    \/ \E sent \in BOOLEAN : get_power_status(sent)
    \/ \E sent \in BOOLEAN : get_input_status(sent)
    \/ \E sent \in BOOLEAN : get_av_mute(sent)
    \/ \E io \in IOOutcomes : Receive(io)
    \/ VP734Return

SpecVP734 == InitVP734 /\ [][NextVP734]_vars

-----------------------------------------------------------------------------
(* Properties of KramerVP734 *)

C5Script ==
    <<"Y", " ", "0", " ", "3", "0", " ", "2", "CR", "LF", ">",
      "Z", " ", "0", " ", "3", "0", " ", "2", "CR", "LF", ">">>

\* the slice is followed by the terminator in the bytes received so far
Terminated(e) == MatchAt(consumed, Terminator, e.at + Len(e.data))

\* the slice starts where a message starts: at the head of the stream or just
\* after a terminator
AtMessageStart(e) ==
    \/ e.at = 1
    \/ e.at > Len(Terminator) /\ MatchAt(consumed, Terminator, e.at - Len(Terminator))

\* the slice is one whole message of the stream
Complete(e) == e.data # <<>> /\ AtMessageStart(e) /\ Terminated(e)

\* the slice reads "<first> <subop> <f> <p>" with integers f and p
IsReport(e, first) ==
    LET parts == SplitWs(e.data)
    IN /\ Len(parts) = 4
       /\ parts[1] = first
       /\ IsInt(parts[3])
       /\ IsInt(parts[4])

func_of(e) == IntOf(SplitWs(e.data)[3])
param_of(e) == IntOf(SplitWs(e.data)[4])

\* C4: every slice read_response hands to parse() was followed by the
\* terminator in the stream, and every slice it looks at is a whole message:
\* nothing after the last terminator of a read is classified or dropped.
C4_OnlyTerminatedSlicesParsed ==
    \A i \in 1..Len(slices) :
        /\ slices[i].handed => Terminated(slices[i])
        /\ slices[i].data # <<>> => Complete(slices[i])

\* C5: once the stream 'Y 0 30 2\r\n>Z 0 30 2\r\n>' has been received in three
\* chunks, two messages were classified, one of them (the Z report) was handed
\* to parse() and the cached input is the input with code 2.
C5_ThreeChunksSameResult ==
    (script = C5Script /\ wire = <<>> /\ reads = 3)
        => /\ n_slices = 2
           /\ n_parsed = 1
           /\ _input_status = key_for_value(vp_inputs, 2)

\* C6: a whole message that begins with Y is not handed to parse() and leaves
\* power, input and mute as they were, whatever function code it carries.
C6_EchoDiscarded ==
    \A i \in 1..Len(slices) :
        (Complete(slices[i]) /\ startswith(slices[i].data, <<"Y">>))
            => /\ ~slices[i].handed
               /\ slices[i].post = slices[i].pre

\* C7: a slice that is exactly "-" is handed to parse(), which sets the cached
\* power to True whatever it was and leaves input and mute alone; the cache
\* after the read is what the last slice left.
C7_DashMeansPowerOn ==
    /\ \A i \in 1..Len(slices) :
          slices[i].data = <<"-">>
            => /\ slices[i].handed
               /\ slices[i].raised = None
               /\ slices[i].post.power = "True"
               /\ slices[i].post.input = slices[i].pre.input
               /\ slices[i].post.mute = slices[i].pre.mute
    /\ slices # <<>> => VPState = slices[Len(slices)].post

\* a "-" arrived while the cached power was False, and the cache now says True
C7_Witness ==
    /\ v_pc = "done"
    /\ \E i \in 1..Len(slices) :
          /\ slices[i].data = <<"-">>
          /\ Complete(slices[i])
          /\ slices[i].pre.power = "False"
    /\ _power_status = "True"

\* C8 as stated: a report 'Z <subop> <f> <p>' sets the field of f from p (power
\* for 10, input for 30, mute for 8) and nothing else, for every p; a report
\* with another function code changes nothing.
C8_EveryParamUpdates ==
    \A i \in 1..Len(slices) :
        LET e == slices[i] IN
        IsReport(e, <<"Z">>) =>
            /\ e.handed
            /\ CASE func_of(e) = 10 -> e.post = [e.pre EXCEPT !.power = bool(param_of(e))]
                 [] func_of(e) = 8 -> e.post = [e.pre EXCEPT !.mute = bool(param_of(e))]
                 [] func_of(e) = 30 ->
                        /\ HasValue(vp_inputs, param_of(e))
                        /\ e.post = [e.pre EXCEPT !.input = key_for_value(vp_inputs, param_of(e))]
                 [] OTHER -> e.post = e.pre

\* C8 as the code has it: the field of f is set only when p is a key of
\* data[f] (0 or 1 for power and mute, 0..6 for input); for f = 30 the input
\* becomes the first member with value p, and when no member has that value
\* parse() raises ValueError and changes nothing; every other report changes
\* nothing.
C8_KnownParamUpdates ==
    \A i \in 1..Len(slices) :
        LET e == slices[i] IN
        IsReport(e, <<"Z">>) =>
            /\ e.handed
            /\ IF func_of(e) \in {8, 10, 30} /\ param_of(e) \in data_keys(func_of(e))
               THEN CASE func_of(e) = 10 ->
                            /\ e.post = [e.pre EXCEPT !.power = bool(param_of(e))]
                            /\ e.raised = None
                      [] func_of(e) = 8 ->
                            /\ e.post = [e.pre EXCEPT !.mute = bool(param_of(e))]
                            /\ e.raised = None
                      [] func_of(e) = 30 ->
                            IF HasValue(vp_inputs, param_of(e))
                            THEN /\ e.post = [e.pre EXCEPT
                                                !.input = key_for_value(vp_inputs, param_of(e))]
                                 /\ e.raised = None
                            ELSE /\ e.post = e.pre
                                 /\ e.raised = "ValueError"
               ELSE e.post = e.pre

\* a report with param 0 turned a cached power or mute of True into False, and
\* the cache holds the new value once the operation is done
C8_Witness ==
    /\ v_pc = "done"
    /\ \E i \in 1..Len(slices) :
          LET e == slices[i] IN
          /\ IsReport(e, <<"Z">>)
          /\ func_of(e) \in {8, 10}
          /\ param_of(e) = 0
          /\ e.pre # e.post
          /\ \/ func_of(e) = 10 /\ e.pre.power = "True" /\ _power_status = "False"
             \/ func_of(e) = 8 /\ e.pre.mute = "True" /\ _av_mute = "False"

\* the function code whose report answers the query
queried(op) ==
    CASE op = "get_power_status" -> 10
      [] op = "get_av_mute" -> 8
      [] OTHER -> 30

Queries == {"get_power_status", "get_input_status", "get_av_mute", "select_input"}

\* the read brought a notification about what the query asked for
Answered ==
    \E i \in 1..Len(slices) :
        LET e == slices[i] IN
        /\ e.handed
        /\ \/ IsReport(e, <<"Z">>) /\ func_of(e) = queried(v_op)
           \/ IsReport(e, <<"Y">>) /\ func_of(e) = queried(v_op)
           \/ e.data = <<"-">> /\ v_op = "get_power_status"

\* C9: a query that was sent and for which no notification of the queried
\* function arrived ends with an error, never with a returned value.
C9_UnansweredQueryFails ==
    (v_pc = "done" /\ v_op \in Queries /\ v_cmd # <<>> /\ ~Answered)
        => v_outcome.kind = "raise"

\* C10: when recv() fails during an operation, the caller gets the error and
\* power, input and mute are all unknown afterwards.
C10_ReadFailureResetsState ==
    (v_pc = "done" /\ v_cmd # <<>> /\ v_outcome = [kind |-> "raise", value |-> "OSError"])
        => /\ _power_status = None
           /\ _input_status = None
           /\ _av_mute = None

\* C11: the cached power, input and mute start as None and change only in the
\* step that runs read_response(), and only when a slice of that read was handed
\* to parse() and parse() changed the state; sending a command, a read that
\* fails or brings nothing, and the return to the caller leave the cache as it
\* was.
C11_CacheWrittenOnlyByParse ==
    /\ <<_power_status, _input_status, _av_mute>> = <<None, None, None>>
    /\ [][ (<<_power_status, _input_status, _av_mute>>' # <<_power_status, _input_status, _av_mute>>)
            => /\ v_pc = "sent" /\ v_pc' = "done"
               /\ \E i \in 1..Len(slices') :
                     /\ slices'[i].handed
                     /\ slices'[i].post # slices'[i].pre ]_vars

\* power_off was sent while the cache said the power is on, the read brought
\* nothing, and the cache still says the power is on
C11_Witness ==
    /\ v_pc = "done"
    /\ v_op = "power_off"
    /\ v_cmd # <<>>
    /\ v_outcome.kind = "return"
    /\ data = <<>>
    /\ _power_status = "True"

-----------------------------------------------------------------------------
(* KramerP3000 over TCP: open_connection, Comms.reset_input_buffer,          *)
(* Comms.send, Comms.recv and close_connection, step by step, for two        *)
(* callers of select_input on one driver instance.  The driver holds no lock. *)

\* the responses the switcher gives to a command
TcpOk == <<"~", "0", "1", "@", "O", "K", "CR", "LF">>
Tcp002 == <<"~", "0", "1", "@", "E", "R", "R", "0", "0", "2", "CR", "LF">>
TcpReplies == {TcpOk, Tcp002}

Sockets == 1..MaxSockets

\* the bytes of a recv() buffer
RECURSIVE buffer_bytes(_)
buffer_bytes(b) == IF b = <<>> THEN <<>> ELSE Head(b).bytes \o buffer_bytes(Tail(b))

\* a socket operation on a socket this side has closed raises
usable(s) == s \in Sockets /\ s_state[s] = "open"

\* an exception inside the try block of select_input: the except clause
\* re-raises it once the finally clause has closed the connection
TcpRaise(t, exc) ==
    /\ t_pc' = [t_pc EXCEPT ![t] = "closing"]
    /\ t_outcome' = [t_outcome EXCEPT ![t] = [kind |-> "raise", value |-> exc]]

\* open_connection: create_connection replaces self.comms.connection
TcpOpen(t) ==
    /\ t_pc[t] = "idle"
    /\ \E n \in Sockets :
          /\ s_state[n] = "unused"
          /\ \A m \in 1..(n - 1) : s_state[m] # "unused"
          /\ s_state' = [s_state EXCEPT ![n] = "open"]
          /\ s_owner' = [s_owner EXCEPT ![n] = t]
          /\ t_connection' = n
    /\ t_pc' = [t_pc EXCEPT ![t] = "reset"]
    /\ t_k' = [t_k EXCEPT ![t] = 1]
    /\ UNCHANGED <<s_peer, s_rx, s_pending, t_insock, t_buffer, t_outcome>>
    /\ UNCHANGED tcp_rest

\* reset_input_buffer: whatever waits in the socket the driver holds is read and
\* dropped; on a connection the switcher closed recv() keeps returning b'' and
\* the loop does not end
TcpReset(t) ==
    /\ t_pc[t] = "reset"
    /\ IF ~usable(t_connection)
       THEN /\ TcpRaise(t, "OSError")
            /\ UNCHANGED s_rx
       ELSE /\ s_rx' = [s_rx EXCEPT ![t_connection] = <<>>]
            /\ t_pc' = [t_pc EXCEPT ![t] =
                          IF s_peer[t_connection] = "gone" THEN "reset" ELSE "send"]
            /\ UNCHANGED t_outcome
    /\ UNCHANGED <<t_connection, s_state, s_peer, s_pending, s_owner, t_k, t_insock, t_buffer>>
    /\ UNCHANGED tcp_rest

\* __try_cmd: self.comms.send(cmd) on the socket the driver holds now
TcpSend(t) ==
    /\ t_pc[t] = "send"
    /\ IF ~usable(t_connection)
       THEN /\ TcpRaise(t, "OSError")
            /\ UNCHANGED s_pending
       ELSE /\ s_pending' = [s_pending EXCEPT ![t_connection] =
                                IF s_peer[t_connection] = "up"
                                THEN Append(@, [by |-> t, k |-> t_k[t]])
                                ELSE @]
            /\ t_pc' = [t_pc EXCEPT ![t] = "recv"]
            /\ UNCHANGED t_outcome
    /\ UNCHANGED <<t_connection, s_state, s_peer, s_rx, s_owner, t_k, t_insock, t_buffer>>
    /\ UNCHANGED tcp_rest

\* recv(): in_socks = [self.connection]
TcpRecvStart(t) ==
    /\ t_pc[t] = "recv"
    /\ t_insock' = [t_insock EXCEPT ![t] = t_connection]
    /\ t_buffer' = [t_buffer EXCEPT ![t] = <<>>]
    /\ t_pc' = [t_pc EXCEPT ![t] = "select"]
    /\ UNCHANGED <<t_connection, s_state, s_peer, s_rx, s_pending, s_owner, t_k, t_outcome>>
    /\ UNCHANGED tcp_rest

\* recv(): select.select(in_socks, [], []) has no timeout and returns when the
\* socket is readable (bytes wait, or the switcher closed the connection); then
\* "if self.connection in inputs_available"
TcpSelect(t) ==
    /\ t_pc[t] = "select"
    /\ IF ~usable(t_insock[t])
       THEN TcpRaise(t, "ValueError")
       ELSE /\ s_rx[t_insock[t]] # <<>> \/ s_peer[t_insock[t]] = "gone"
            /\ t_pc' = [t_pc EXCEPT ![t] =
                          IF t_connection = t_insock[t] THEN "read" ELSE "classify"]
            /\ UNCHANGED t_outcome
    /\ UNCHANGED <<t_connection, s_state, s_peer, s_rx, s_pending, s_owner, t_k, t_insock, t_buffer>>
    /\ UNCHANGED tcp_rest

\* recv(): one pass of "while data_available": buffer += self.connection.recv();
\* BlockingIOError (nothing waits) ends the loop; on a connection the switcher
\* closed recv() returns b'' and the loop goes on
TcpRead(t) ==
    /\ t_pc[t] = "read"
    /\ IF ~usable(t_connection)
       THEN /\ TcpRaise(t, "OSError")
            /\ UNCHANGED <<s_rx, t_buffer>>
       ELSE IF s_rx[t_connection] # <<>>
       THEN /\ t_buffer' = [t_buffer EXCEPT ![t] = @ \o s_rx[t_connection]]
            /\ s_rx' = [s_rx EXCEPT ![t_connection] = <<>>]
            /\ UNCHANGED <<t_pc, t_outcome>>
       ELSE /\ t_pc' = [t_pc EXCEPT ![t] =
                          IF s_peer[t_connection] = "up" THEN "classify" ELSE "read"]
            /\ UNCHANGED <<s_rx, t_buffer, t_outcome>>
    /\ UNCHANGED <<t_connection, s_state, s_peer, s_pending, s_owner, t_k, t_insock>>
    /\ UNCHANGED tcp_rest

\* __try_cmd classifies what recv() returned and the for loop of select_input
\* continues with the next candidate, returns or raises
TcpClassify(t) ==
    /\ t_pc[t] = "classify"
    /\ LET response == buffer_bytes(t_buffer[t])
           branch == select_input_branch("avctls", __try_cmd(response), response)
       IN IF branch = "continue" /\ t_k[t] < Len(select_try_in_order(<<"1">>, <<"*">>))
          THEN /\ t_k' = [t_k EXCEPT ![t] = @ + 1]
               /\ t_pc' = [t_pc EXCEPT ![t] = "send"]
               /\ UNCHANGED t_outcome
          ELSE /\ t_pc' = [t_pc EXCEPT ![t] = "closing"]
               /\ t_outcome' = [t_outcome EXCEPT ![t] =
                     IF branch = "continue" THEN [kind |-> "return", value |-> None]
                     ELSE IF branch = "return" THEN [kind |-> "return", value |-> "1"]
                     ELSE [kind |-> "raise", value |-> branch]]
               /\ UNCHANGED t_k
    /\ UNCHANGED <<t_connection, s_state, s_peer, s_rx, s_pending, s_owner, t_insock, t_buffer>>
    /\ UNCHANGED tcp_rest

\* the finally clause: close_connection closes the socket the driver holds now
\* (what waited on it is gone with it)
TcpClose(t) ==
    /\ t_pc[t] = "closing"
    /\ s_state' = [s_state EXCEPT ![t_connection] = "closed"]
    /\ s_rx' = [s_rx EXCEPT ![t_connection] = <<>>]
    /\ s_pending' = [s_pending EXCEPT ![t_connection] = <<>>]
    /\ t_pc' = [t_pc EXCEPT ![t] = "done"]
    /\ UNCHANGED <<t_connection, s_peer, s_owner, t_k, t_insock, t_buffer, t_outcome>>
    /\ UNCHANGED tcp_rest

\* the caller takes the result
TcpReturn(t) ==
    /\ t_pc[t] = "done"
    /\ t_pc' = [t_pc EXCEPT ![t] = "idle"]
    /\ t_k' = [t_k EXCEPT ![t] = 1]
    /\ t_insock' = [t_insock EXCEPT ![t] = 0]
    /\ t_buffer' = [t_buffer EXCEPT ![t] = <<>>]
    /\ t_outcome' = [t_outcome EXCEPT ![t] = NoOutcome]
    /\ UNCHANGED <<t_connection, s_state, s_peer, s_rx, s_pending, s_owner>>
    /\ UNCHANGED tcp_rest

\* the switcher answers the oldest command it has received on a connection
DeviceAnswer(s, reply) ==
    /\ s_state[s] = "open" /\ s_peer[s] = "up"
    /\ s_pending[s] # <<>>
    /\ s_rx' = [s_rx EXCEPT ![s] = Append(@, [by |-> Head(s_pending[s]).by, bytes |-> reply])]
    /\ s_pending' = [s_pending EXCEPT ![s] = Tail(@)]
    /\ UNCHANGED <<t_connection, s_state, s_peer, s_owner, t_pc, t_k, t_insock, t_buffer, t_outcome>>
    /\ UNCHANGED tcp_rest

\* the switcher closes a connection
DeviceClose(s) ==
    /\ s_state[s] = "open" /\ s_peer[s] = "up"
    /\ s_peer' = [s_peer EXCEPT ![s] = "gone"]
    /\ s_pending' = [s_pending EXCEPT ![s] = <<>>]
    /\ UNCHANGED <<t_connection, s_state, s_rx, s_owner, t_pc, t_k, t_insock, t_buffer, t_outcome>>
    /\ UNCHANGED tcp_rest

\* the steps of a caller that is inside select_input
CallerStep(t) ==
    \/ TcpReset(t) \/ TcpSend(t) \/ TcpRecvStart(t) \/ TcpSelect(t)
    \/ TcpRead(t) \/ TcpClassify(t) \/ TcpClose(t) \/ TcpReturn(t)

InitTcp ==
    /\ TcpIdle
    /\ P3000Idle
    /\ VP734Idle
    /\ NECIdle
    /\ PJIdle
    /\ CkIdle
    /\ SiIdle
    /\ MdIdle
    /\ LastIdle

NextTcp ==
    \/ \E t \in Callers : TcpOpen(t)
    \/ \E t \in Callers : TcpReset(t)
    \/ \E t \in Callers : TcpSend(t)
    \/ \E t \in Callers : TcpRecvStart(t)
    \/ \E t \in Callers : TcpSelect(t)
    \/ \E t \in Callers : TcpRead(t)
    \/ \E t \in Callers : TcpClassify(t)
    \/ \E t \in Callers : TcpClose(t)
    \/ \E t \in Callers : TcpReturn(t)
    \/ \E s \in Sockets, reply \in TcpReplies : DeviceAnswer(s, reply)
    \/ \E s \in Sockets : DeviceClose(s)

SpecTcp == InitTcp /\ [][NextTcp]_vars

\* the scheduler lets every caller that can take a step take one
SpecTcpFair == SpecTcp /\ \A t \in Callers : WF_vars(CallerStep(t))

-----------------------------------------------------------------------------
(* Properties of KramerP3000 over TCP *)

\* the caller is between open_connection and close_connection
InSession(t) == t_pc[t] \in {"reset", "send", "recv", "select", "read", "classify"}

\* C12: on every connection at most one command is unanswered or unread at any
\* time; a caller only ever reads responses to its own commands; and while a
\* caller is between open_connection and close_connection the driver holds the
\* socket that caller opened, and that socket is open.
C12_OneCommandInFlight ==
    /\ \A s \in Sockets : Len(s_pending[s]) + Len(s_rx[s]) <= 1
    /\ \A t \in Callers : \A i \in 1..Len(t_buffer[t]) : t_buffer[t][i].by = t
    /\ \A t \in Callers :
          (InSession(t) /\ t_outcome[t].kind = "none")
              => /\ usable(t_connection)
                 /\ s_owner[t_connection] = t

\* C13: a caller that has entered select_input over TCP eventually gets a
\* result, whatever the switcher does (answer, stay silent, close the
\* connection).
C13_SelectInputTerminates ==
    \A t \in Callers : (t_pc[t] # "idle") ~> (t_pc[t] = "done")

-----------------------------------------------------------------------------
(* NEC projector driver.  Bytes are integers 0..255; a str is the sequence  *)
(* of its code points.                                                       *)

NEC_default_inputs ==
    << <<"RGB_1", <<1>> >>,
       <<"RGB_2", <<2>> >>,
       <<"RGB_3", <<3>> >>,
       <<"HDMI_1", <<26>> >>,
       <<"HDMI_1_ALT", <<161>> >>,
       <<"HDMI_2", <<27>> >>,
       <<"HDMI_2_ALT", <<162>> >>,
       <<"VIDEO_1", <<6>> >>,
       <<"VIDEO_2", <<11>> >>,
       <<"VIDEO_3", <<16>> >>,
       <<"DISPLAYPORT", <<166>> >>,
       <<"DISPLAYPORT_ALT", <<27>> >>,
       <<"USB_VIEWER_A", <<31>> >>,
       <<"USB_VIEWER_B", <<34>> >>,
       <<"NETWORK", <<32>> >> >>

\* an inputs= mapping a room configuration passes to the constructor
NECUserInputs == << <<"COMPUTER", <<1>> >>, <<"APPLE_TV", <<161>> >> >>

\* one that gives a name of the defaults the code of another terminal
NECUserInputsShared == << <<"DISPLAYPORT", <<27>> >> >>

\* the mappings passed as inputs=; the empty one stands for none
NECUserConfigs == {<<>>, NECUserInputs, NECUserInputsShared}

\* __init__: "if inputs and isinstance(inputs, dict)" merges, else the defaults
NEC__init__inputs(user) ==
    IF user # <<>> THEN merge_dicts(user, NEC_default_inputs) ELSE NEC_default_inputs

\* self.inputs after __init__, without and with a custom mapping
NECInputs == {NEC__init__inputs(user) : user \in NECUserConfigs}

\* names a caller may pass to select_input ("BOGUS" is in no mapping)
NECInputNames == {"RGB_1", "HDMI_1_ALT", "DISPLAYPORT", "BOGUS"}

\* NEC.Lamp and NEC.LampInfo
Lamp == [LAMP_1 |-> <<0>>, LAMP_2 |-> <<1>>]
LampInfo == [LAMP_USAGE |-> <<1>>, LAMP_LIFE |-> <<4>>]

\* NEC.Command
Command ==
    [POWER_ON |-> <<2, 0, 0, 0, 0, 2>>,
     POWER_OFF |-> <<2, 1, 0, 0, 0, 3>>,
     STATUS |-> <<0, 191, 0, 0, 1, 2, 194>>,
     BASIC_INFO |-> <<3, 138, 0, 0, 0, 141>>,
     FILTER_INFO |-> <<3, 149, 0, 0, 0, 152>>,
     GET_ERRORS |-> <<0, 136, 0, 0, 0, 136>>,
     GET_MODEL |-> <<0, 133, 0, 0, 1, 4, 138>>,
     SWITCH_INPUT |-> <<2, 3, 0, 0, 2, 1>>,
     LAMP_INFO |-> <<3, 150, 0, 0, 2>>]

\* the commands sent as they are, without parameters
NECFixedCommands ==
    {Command.POWER_ON, Command.POWER_OFF, Command.STATUS, Command.BASIC_INFO,
     Command.FILTER_INFO, Command.GET_ERRORS, Command.GET_MODEL}

\* NEC.cmd_errors
cmd_errors ==
    << << <<0, 0>>, "The command cannot be recognized." >>,
       << <<0, 1>>, "The command is not supported by the model in use." >>,
       << <<1, 0>>, "The specified value is invalid." >>,
       << <<1, 1>>, "The specified input terminal is invalid." >>,
       << <<1, 2>>, "The specified language is invalid." >>,
       << <<2, 0>>, "Memory allocation error" >>,
       << <<2, 2>>, "Memory in use" >>,
       << <<2, 3>>, "The specified value cannot be set." >>,
       << <<2, 4>>, "Forced onscreen mute on" >>,
       << <<2, 6>>, "Viewer error" >>,
       << <<2, 7>>, "No signal" >>,
       << <<2, 8>>, "A test pattern or filer is displayed." >>,
       << <<2, 9>>, "No PC card is inserted." >>,
       << <<2, 10>>, "Memory operation error" >>,
       << <<2, 12>>, "An entry list is displayed." >>,
       << <<2, 13>>, "The command cannot be accepted because the power is off." >>,
       << <<2, 14>>, "The command execution failed." >>,
       << <<2, 15>>, "There is no authority necessary for the operation." >>,
       << <<3, 0>>, "The specified gain number is incorrect." >>,
       << <<3, 1>>, "The specified gain is invalid." >>,
       << <<3, 2>>, "Adjustment failed." >> >>

\* NEC.status['power']
status_power == << <<0, "Standby (Sleep)">>, <<4, "Power On">>, <<5, "Cooling">>, <<6, "Standby (Error)">>, <<15, "Standby (Power saving)">>, <<16, "Network standby">> >>

\* the keys of NEC.error_status: the response bytes that hold error bits
error_status_bytes == {5, 6, 7, 8, 13}

RECURSIVE SumOf(_)
SumOf(vals) == IF vals = <<>> THEN 0 ELSE Head(vals) + SumOf(Tail(vals))

\* __checksum without the mask to one byte
NEC__checksum_unmasked(vals) == SumOf(vals)

\* NEC.__checksum(vals) for bytes: sum(i for i in vals) & 0xFF
NEC__checksum(vals) == SumOf(vals) % 256

\* str.encode(): the UTF-8 encoding of code points below 0x100
RECURSIVE encode(_)
encode(p) ==
    IF p = <<>> THEN <<>>
    ELSE (IF Head(p) < 128 THEN <<Head(p)>>
          ELSE <<192 + (Head(p) \div 64), 128 + (Head(p) % 64)>>) \o encode(Tail(p))

\* a parameter of __cmd: a str (an input code) or a Lamp / LampInfo member
StrParam(p) == [type |-> "str", value |-> p]
EnumParam(p) == [type |-> "enum", value |-> p]

\* the loop of __cmd that appends the parameters to cmd_bytes
RECURSIVE add_params(_, _)
add_params(cmd_bytes, params) ==
    IF params = <<>> THEN cmd_bytes
    ELSE add_params(cmd_bytes \o (IF Head(params).type = "str"
                                  THEN encode(Head(params).value)
                                  ELSE Head(params).value),
                    Tail(params))

\* the frame __cmd builds: cmd.value, the parameters and, if there are
\* parameters and checksum_required, the checksum of what precedes
NEC_cmd_bytes(cmd, params, checksum_required) ==
    IF Len(params) > 0
    THEN LET with_params == add_params(cmd, params)
         IN IF checksum_required
            THEN with_params \o <<NEC__checksum(with_params)>>
            ELSE with_params
    ELSE cmd

\* Byte.high_nibble_char: hex(self >> 4)[2:]
high_nibble_char(b) ==
    LET n == b \div 16
    IN CASE n < 10 -> <<"0", "1", "2", "3", "4", "5", "6", "7", "8", "9">>[n + 1]
         [] n = 10 -> "a" [] n = 11 -> "b" [] n = 12 -> "c"
         [] n = 13 -> "d" [] n = 14 -> "e" [] n = 15 -> "f"

\* result[a:b] of Python, 0-based and clipped to the length
Slice(s, a, b) == SubSeq(s, a + 1, IF b < Len(s) THEN b ELSE Len(s))

NECNoOutcome == [kind |-> "none", value |-> None, detail |-> <<>>]
NECReturns(value) == [kind |-> "return", value |-> value, detail |-> <<>>]
NECRaises(exc, detail) == [kind |-> "raise", value |-> exc, detail |-> detail]

\* What __cmd makes of the response: result[0] of an empty response raises
\* IndexError; a first byte with high nibble 'a' gives the tuple result[5:7];
\* anything else gives the response itself.
NEC__cmd_decode(result) ==
    IF Len(result) = 0 THEN [raised |-> "IndexError"]
    ELSE IF high_nibble_char(result[1]) = "a"
    THEN [raised |-> None, type |-> "tuple", val |-> Slice(result, 5, 7)]
    ELSE [raised |-> None, type |-> "bytes", val |-> result]

\* "raise Exception(data, 'An error occurred: ' + self.cmd_errors[data])":
\* KeyError when data (a tuple, or a 2-byte bytes object) is no key of cmd_errors
raise_error(decoded) ==
    IF decoded.type = "tuple" /\ HasKey(cmd_errors, decoded.val)
    THEN NECRaises("Exception", <<decoded.val, Get(cmd_errors, decoded.val)>>)
    ELSE NECRaises("KeyError", <<decoded.val>>)

\* int.from_bytes(vals, 'little')
RECURSIVE from_bytes_little(_)
from_bytes_little(vals) ==
    IF vals = <<>> THEN 0 ELSE Head(vals) + 256 * from_bytes_little(Tail(vals))

\* the bits set in the error bytes of a GET_ERRORS response: get_errors
\* returns the message of each, here named by its byte and bit
error_bits(val) ==
    {<<byte, bit>> \in error_status_bytes \X {128, 64, 32, 16, 8, 4, 2, 1} :
        (val[byte + 1] \div bit) % 2 = 1}

\* The else branch of an operation (len(data) != 2): what it returns or raises.
\* A subscript beyond the data raises IndexError, a status byte outside the
\* table KeyError.
NEC_success(op, arg, d, results, decoded) ==
    CASE op \in {"power_on", "power_off", "power_toggle"} -> NECReturns("True")
      [] op = "select_input" -> NECReturns(key_for_value(d, Get(d, arg)))
      [] op = "get_power_status" ->
            IF Len(decoded.val) < 7 THEN NECRaises("IndexError", <<>>)
            ELSE IF ~HasKey(status_power, decoded.val[7])
            THEN NECRaises("KeyError", <<decoded.val[7]>>)
            ELSE NECReturns(Get(status_power, decoded.val[7]))
      [] op = "get_errors" ->
            IF Len(decoded.val) < 14 THEN NECRaises("IndexError", <<>>)
            ELSE NECReturns(error_bits(decoded.val))
      [] op = "get_filter_info" ->
            NECReturns(from_bytes_little(Slice(decoded.val, 5, 9)) \div 3600)
      [] op = "get_lamp_info" ->
            NECReturns(<<from_bytes_little(Slice(NEC__cmd_decode(results[1]).val, 7, 11)) \div 3600,
                         from_bytes_little(Slice(decoded.val, 7, 11))>>)

\* the operations and their arguments
NECCalls ==
    [op : {"power_on", "power_off", "get_power_status", "get_errors", "get_filter_info",
           "power_toggle"},
     arg : {None}]
    \cup [op : {"select_input"}, arg : NECInputNames]
    \cup [op : {"get_lamp_info"}, arg : {"LAMP_1", "LAMP_2"}]

\* '"power on" in power_status.casefold()' and '"standby" in
\* power_status.casefold()', for the strings of status['power']
PowerOnIn(power_status) == power_status \in {"Power On"}
StandbyIn(power_status) ==
    power_status \in {"Standby (Sleep)", "Standby (Error)", "Standby (Power saving)",
                      "Network standby"}

\* a toggle that takes every state but "Power On" for a standby
power_toggle_next_no_else(power_status) ==
    IF PowerOnIn(power_status) THEN "power_off" ELSE "power_on"

\* power_toggle after get_power_status returned: the operation it calls
\* next, or "none" (it returns False)
power_toggle_next(power_status) ==
    IF PowerOnIn(power_status) THEN "power_off"
    ELSE IF StandbyIn(power_status) THEN "power_on"
    ELSE "none"

\* the frame the n-th __cmd call of an operation builds
NEC_frame(op, arg, d, n) ==
    CASE op = "power_on" -> NEC_cmd_bytes(Command.POWER_ON, <<>>, FALSE)
      [] op = "power_toggle" -> NEC_cmd_bytes(Command.STATUS, <<>>, FALSE)
      [] op = "power_off" -> NEC_cmd_bytes(Command.POWER_OFF, <<>>, FALSE)
      [] op = "get_power_status" -> NEC_cmd_bytes(Command.STATUS, <<>>, FALSE)
      [] op = "get_errors" -> NEC_cmd_bytes(Command.GET_ERRORS, <<>>, FALSE)
      [] op = "get_filter_info" -> NEC_cmd_bytes(Command.FILTER_INFO, <<>>, FALSE)
      [] op = "select_input" ->
            NEC_cmd_bytes(Command.SWITCH_INPUT, <<StrParam(Get(d, arg))>>, TRUE)
      [] op = "get_lamp_info" ->
            NEC_cmd_bytes(Command.LAMP_INFO,
                          <<EnumParam(Lamp[arg]),
                            EnumParam(IF n = 1 THEN LampInfo.LAMP_USAGE
                                      ELSE LampInfo.LAMP_LIFE)>>,
                          TRUE)

\* what create_connection() and send() can do
NECIO == {"ok", "connect_fails", "send_fails"}

\* The part of __cmd up to send(): the frame is built, the connection is made
\* (create_connection replaces comms.connection) and the frame is sent.  An
\* OSError of either call is re-raised by __cmd and by the operation.
NEC__cmd_send(frame, io, connection) ==
    /\ nec_connection' = (IF io = "connect_fails" THEN connection ELSE "open")
    /\ nec_sent' = (IF io = "ok" THEN Append(nec_sent, frame) ELSE nec_sent)
    /\ IF io = "ok"
       THEN nec_pc' = "sent" /\ nec_outcome' = NECNoOutcome
       ELSE nec_pc' = "done" /\ nec_outcome' = NECRaises("OSError", <<>>)

\* An operation is called and runs up to the recv() of its first command.
\* select_input raises KeyError for a name that is not in self.inputs.
NECCall(c, io) ==
    /\ nec_pc = "idle"
    /\ nec_op' = c.op
    /\ nec_arg' = c.arg
    /\ nec_results' = <<>>
    /\ IF c.op = "select_input" /\ ~HasKey(nec_inputs, c.arg)
       THEN /\ nec_pc' = "done"
            /\ nec_outcome' = NECRaises("KeyError", <<c.arg>>)
            /\ UNCHANGED <<nec_connection, nec_sent>>
       ELSE NEC__cmd_send(NEC_frame(c.op, c.arg, nec_inputs, 1), io, nec_connection)
    /\ UNCHANGED <<nec_inputs, nec_rest>>

\* responses of a projector: acknowledgements, a running-status response with
\* each power byte, lamp, filter and error-status data, error responses
\* with every pair of codes, truncated ones, a first byte with another high
\* nibble, two bytes only, nothing at all
NECErrorResponse(b5, b6) ==
    LET body == <<162, 0, 1, 32, 2, b5, b6>> IN body \o <<NEC__checksum(body)>>
NECStatusResponse(power) ==
    LET body == <<32, 191, 1, 32, 16, 2, power, 1, 1, 6, 1, 0, 0, 0, 0, 0, 0, 0, 0, 0, 0>>
    IN body \o <<NEC__checksum(body)>>
NECResponses ==
    {<<34, 0, 1, 32, 0, 67>>,
     <<34, 3, 1, 32, 1, 0, 71>>,
     <<35, 150, 1, 32, 6, 0, 1, 16, 14, 0, 0, 254>>,
     <<35, 149, 1, 32, 8, 32, 28, 0, 0, 0, 0, 0, 0, 29>>,
     <<32, 136, 1, 32, 12, 16, 1, 0, 0, 0, 0, 0, 0, 0, 0, 0, 0, 230>>,
     <<162, 0>>, <<162, 0, 1, 32, 2, 2>>, <<34, 0>>, <<82, 0, 1, 32, 0, 115>>, <<>>}
    \cup {NECStatusResponse(power) : power \in {0, 4, 5, 7, 16}}
    \cup {NECErrorResponse(b5, b6) : b5 \in 0..4, b6 \in 0..15}

\* recv() returns a response: __cmd closes the connection and decodes, the
\* operation raises or returns; get_lamp_info, after a first response that is
\* no error, sends its second command, and power_toggle, after a status that
\* is "Power On" or a standby, the command of power_off or power_on.
NECReceive(result, io) ==
    /\ nec_pc = "sent"
    /\ nec_results' = Append(nec_results, result)
    /\ LET decoded == NEC__cmd_decode(result)
       IN IF decoded.raised # None
          THEN /\ nec_pc' = "done"
               /\ nec_outcome' = NECRaises(decoded.raised, <<>>)
               /\ nec_connection' = "closed"
               /\ UNCHANGED nec_sent
          ELSE IF Len(decoded.val) = 2
          THEN /\ nec_pc' = "done"
               /\ nec_outcome' = raise_error(decoded)
               /\ nec_connection' = "closed"
               /\ UNCHANGED nec_sent
          ELSE IF nec_op = "get_lamp_info" /\ Len(nec_results) = 0
          THEN NEC__cmd_send(NEC_frame(nec_op, nec_arg, nec_inputs, 2), io, "closed")
          ELSE IF nec_op = "power_toggle" /\ Len(nec_results) = 0
          THEN LET status == NEC_success("get_power_status", None, nec_inputs,
                                         nec_results', decoded)
               IN IF status.kind = "raise"
                  THEN /\ nec_pc' = "done"
                       /\ nec_outcome' = status
                       /\ nec_connection' = "closed"
                       /\ UNCHANGED nec_sent
                  ELSE IF power_toggle_next(status.value) = "none"
                  THEN /\ nec_pc' = "done"
                       /\ nec_outcome' = NECReturns("False")
                       /\ nec_connection' = "closed"
                       /\ UNCHANGED nec_sent
                  ELSE NEC__cmd_send(NEC_frame(power_toggle_next(status.value), None,
                                               nec_inputs, 1), io, "closed")
          ELSE /\ nec_pc' = "done"
               /\ nec_outcome' = NEC_success(nec_op, nec_arg, nec_inputs, nec_results', decoded)
               /\ nec_connection' = "closed"
               /\ UNCHANGED nec_sent
    /\ UNCHANGED <<nec_inputs, nec_op, nec_arg, nec_rest>>

\* recv() raises OSError: __cmd re-raises it before the connection is closed
NECRecvFails ==
    /\ nec_pc = "sent"
    /\ nec_pc' = "done"
    /\ nec_outcome' = NECRaises("OSError", <<>>)
    /\ UNCHANGED <<nec_inputs, nec_op, nec_arg, nec_sent, nec_results, nec_connection,
                   nec_rest>>

\* the caller has the outcome; the next operation may be called
NECReturn ==
    /\ nec_pc = "done"
    /\ nec_pc' = "idle"
    /\ nec_sent' = <<>>
    /\ nec_results' = <<>>
    /\ nec_outcome' = NECNoOutcome
    /\ UNCHANGED <<nec_inputs, nec_op, nec_arg, nec_connection, nec_rest>>

InitNEC ==
    /\ P3000Idle /\ VP734Idle /\ TcpIdle /\ PJIdle /\ CkIdle /\ SiIdle /\ MdIdle /\ LastIdle
    /\ nec_inputs \in NECInputs
    /\ nec_pc = "idle"
    /\ nec_op = "none"
    /\ nec_arg = None
    /\ nec_sent = <<>>
    /\ nec_results = <<>>
    /\ nec_connection = "closed"
    /\ nec_outcome = NECNoOutcome

NextNEC ==
    \/ \E c \in NECCalls, io \in NECIO : NECCall(c, io)
    \/ \E result \in NECResponses, io \in NECIO : NECReceive(result, io)
    \/ NECRecvFails
    \/ NECReturn

SpecNEC == InitNEC /\ [][NextNEC]_vars

-----------------------------------------------------------------------------
(* Properties of the NEC driver.                                             *)

\* the last byte of a frame is the sum of the bytes before it, modulo 256
EndsWithChecksum(frame) ==
    /\ Len(frame) >= 2
    /\ frame[Len(frame)] = SumOf(SubSeq(frame, 1, Len(frame) - 1)) % 256

\* C16: every frame the NEC driver sends ends with a checksum byte equal to
\* the sum of all preceding bytes of the frame modulo 256, the fixed command
\* constants and the frames __cmd builds from parameters alike.
C16_FramesEndWithChecksum ==
    /\ \A c \in NECFixedCommands : EndsWithChecksum(c)
    /\ \A i \in 1..Len(nec_sent) : EndsWithChecksum(nec_sent[i])

\* a SWITCH_INPUT frame for an input code above 0x7f, which encode() turns
\* into two bytes, has been sent with its checksum
C16_Witness ==
    /\ nec_op = "select_input" /\ nec_arg = "HDMI_1_ALT"
    /\ Len(nec_sent) = 1 /\ Len(nec_sent[1]) > Len(Command.SWITCH_INPUT) + 1
    /\ nec_sent[1][Len(nec_sent[1])] = 107

\* the response the finished operation decoded last
NECLastResult == nec_results[Len(nec_results)]

\* an operation has finished after decoding a response of at least one byte
NECDecoded == nec_pc = "done" /\ nec_results # <<>> /\ NECLastResult # <<>>

\* C18: a response whose first byte has high nibble 0x2 is a success (no
\* error of the table is raised); one with high nibble 0xA is an error
\* classified from (response[5], response[6]); one with any other high nibble
\* is an error too and is never returned to the caller as a success.
C18_NibbleDecidesOutcome ==
    NECDecoded =>
        LET nibble == NECLastResult[1] \div 16
        IN /\ nibble = 2 => ~(nec_outcome.kind = "raise" /\ nec_outcome.value = "Exception")
           /\ nibble = 10 =>
                /\ nec_outcome.kind = "raise"
                /\ Len(NECLastResult) >= 7 =>
                      nec_outcome.detail[1] = <<NECLastResult[6], NECLastResult[7]>>
           /\ nibble \notin {2, 10} => nec_outcome.kind = "raise"

\* C19: decoding an empty, short or garbage response never lets an
\* IndexError, ValueError or KeyError escape the operation: the failure is
\* a classified error.
C19_NoUnclassifiedException ==
    (nec_pc = "done" /\ nec_results # <<>> /\ nec_outcome.kind = "raise")
        => nec_outcome.value \notin {"IndexError", "ValueError", "KeyError"}

\* a full error response: high nibble 0xA and both error codes present
NECFullError == NECDecoded /\ NECLastResult[1] \div 16 = 10 /\ Len(NECLastResult) >= 7

\* C20: an error response carrying a pair of NEC.cmd_errors surfaces the
\* documented error of that pair; one carrying a pair that is not in the
\* table is reported as an error carrying the pair, not as a failed lookup.
C20_ErrorPairsSurface ==
    NECFullError =>
        LET pair == <<NECLastResult[6], NECLastResult[7]>>
        IN /\ nec_outcome.kind = "raise"
           /\ nec_outcome.value = "Exception"
           /\ nec_outcome.detail[1] = pair
           /\ HasKey(cmd_errors, pair) => nec_outcome.detail[2] = Get(cmd_errors, pair)

-----------------------------------------------------------------------------
(* PJLink projector driver: the power and input operations.  Bytes           *)
(* are one-character strings, as for the Kramer protocols.                   *)

\* PJLink.Command
PJLinkCommand ==
    [POWER_ON |-> <<"%", "1", "P", "O", "W", "R", " ", "1", "CR">>,
     POWER_OFF |-> <<"%", "1", "P", "O", "W", "R", " ", "0", "CR">>,
     POWER_STATUS |-> <<"%", "1", "P", "O", "W", "R", " ", "?", "CR">>,
     INPUT_STATUS |-> <<"%", "1", "I", "N", "P", "T", " ", "?", "CR">>,
     SWITCH_INPUT |-> <<"%", "1", "I", "N", "P", "T", " ">>,
     LAMP_INFO |-> <<"%", "1", "L", "A", "M", "P", " ", "?", "CR">>]

\* PJLink._default_inputs
PJ_default_inputs ==
    << <<"RGB_1", <<"1", "1">> >>,
       <<"RGB_2", <<"1", "2">> >>,
       <<"RGB_3", <<"1", "3">> >>,
       <<"VIDEO_1", <<"2", "1">> >>,
       <<"VIDEO_2", <<"2", "2">> >>,
       <<"VIDEO_3", <<"2", "3">> >>,
       <<"DIGITAL_1", <<"3", "1">> >>,
       <<"DIGITAL_2", <<"3", "2">> >>,
       <<"DIGITAL_3", <<"3", "3">> >>,
       <<"STORAGE_1", <<"4", "1">> >>,
       <<"STORAGE_2", <<"4", "2">> >>,
       <<"NETWORK", <<"5", "1">> >> >>

\* an inputs= mapping a room configuration passes to the constructor
PJUserInputs == << <<"LAPTOP", <<"3", "1">> >>, <<"DOC_CAM", <<"6", "1">> >> >>

\* self.inputs after __init__, without and with a custom mapping
PJInputs == {PJ_default_inputs, merge_dicts(PJUserInputs, PJ_default_inputs)}

\* names a caller may pass to select_input ("BOGUS" is in no mapping)
PJInputNames == {"RGB_1", "DIGITAL_1", "DOC_CAM", "BOGUS"}

\* PJLink.power_state
PJ_power_state == << <<0, "Standby">>, <<1, "Power on">>, <<2, "Cooling">>, <<3, "Warming up">> >>

\* the headers "%1POWR=" and "%1INPT=" of the responses
PJHeader == <<"%", "1", "P", "O", "W", "R", "=">>
PJInptHeader == <<"%", "1", "I", "N", "P", "T", "=">>

\* the header "%1LAMP=" and the payloads of lamp responses: one, two and
\* three lamps (hours and on/off of each), hours alone, hours that are no number
PJLampHeader == <<"%", "1", "L", "A", "M", "P", "=">>
PJLampPayloads ==
    {<<"1", "2", " ", "1">>,
     <<"1", "2", " ", "1", " ", "3", "4", " ", "0">>,
     <<"1", " ", "1", " ", "2", " ", "0", " ", "3", " ", "1">>,
     <<"1", "2">>,
     <<"x", " ", "1">>,
     <<"1", "2", " ", "1", " ", "x", " ", "0">>}

\* what the projector sends first on a new connection
PJGreeting == <<"P", "J", "L", "I", "N", "K", " ", "0", "CR">>

\* replies that reach the socket before the first recv() is made, so that it
\* returns them together with the greeting
PJEarlyReplies ==
    {PJHeader \o payload \o <<"CR">> : payload \in {<<"O", "K">>, <<"1">>, <<"E", "R", "R", "3">>}}

\* what the first recv() can return: the greeting, the greeting with the
\* reply behind it, or b'' from a connection the projector has closed
PJJunk == {PJGreeting, <<>>} \cup {PJGreeting \o reply : reply \in PJEarlyReplies}

\* what the second recv() can return: OK, each power state, a state outside
\* the table, the four errors, a payload that is no number, no payload, a
\* truncated response, b'', and input responses: OK, a known, a custom and
\* an unknown terminal
PJResults ==
    {PJHeader \o payload \o <<"CR">> :
        payload \in {<<"O", "K">>, <<"0">>, <<"1">>, <<"2">>, <<"3">>, <<"7">>,
                     <<"E", "R", "R", "1">>, <<"E", "R", "R", "2">>,
                     <<"E", "R", "R", "3">>, <<"E", "R", "R", "4">>, <<"x">>, <<>>}}
    \cup {<<"%", "1", "P", "O">>, <<>>}
    \cup {PJInptHeader \o payload \o <<"CR">> :
            payload \in {<<"O", "K">>, <<"3", "1">>, <<"6", "1">>, <<"9", "9">>}}
    \cup {PJLampHeader \o payload \o <<"CR">> : payload \in PJLampPayloads}

\* bytes.rstrip()
RECURSIVE rstrip(_)
rstrip(s) ==
    IF s # <<>> /\ s[Len(s)] \in Whitespace THEN rstrip(SubSeq(s, 1, Len(s) - 1)) ELSE s

PJNoOutcome == [kind |-> "none", value |-> None]
PJReturns(value) == [kind |-> "return", value |-> value]
PJRaises(exc) == [kind |-> "raise", value |-> exc]

\* __cmd without the tests for the error strings
PJ__cmd_result_untested(result) == PJNoOutcome

\* __cmd raising CommandFailureError for ERR3 as well as for ERR4
PJ__cmd_result_merged(result) ==
    IF result = <<>> THEN PJNoOutcome
    ELSE IF Contains(result, <<"E", "R", "R", "1">>) THEN PJRaises("BadCommandError")
    ELSE IF Contains(result, <<"E", "R", "R", "2">>) THEN PJRaises("OutOfRangeError")
    ELSE IF Contains(result, <<"E", "R", "R", "3">>) THEN PJRaises("CommandFailureError")
    ELSE IF Contains(result, <<"E", "R", "R", "4">>) THEN PJRaises("CommandFailureError")
    ELSE PJNoOutcome

\* __cmd after the connection is closed: "if result:" and the four tests;
\* PJNoOutcome stands for "return result"
PJ__cmd_result(result) ==
    IF result = <<>> THEN PJNoOutcome
    ELSE IF Contains(result, <<"E", "R", "R", "1">>) THEN PJRaises("BadCommandError")
    ELSE IF Contains(result, <<"E", "R", "R", "2">>) THEN PJRaises("OutOfRangeError")
    ELSE IF Contains(result, <<"E", "R", "R", "3">>) THEN PJRaises("DeviceNotReadyError")
    ELSE IF Contains(result, <<"E", "R", "R", "4">>) THEN PJRaises("CommandFailureError")
    ELSE PJNoOutcome

\* the else clause of get_power_status: int(result[7:].rstrip()) raises
\* ValueError, power_state[data] KeyError; cooling and warming up raise
\* DeviceNotReadyError
PJ_get_power_status(result) ==
    LET payload == rstrip(SubSeq(result, 8, Len(result)))
    IN IF ~IsInt(payload) THEN PJRaises("ValueError")
       ELSE IF ~HasKey(PJ_power_state, IntOf(payload)) THEN PJRaises("KeyError")
       ELSE IF IntOf(payload) \in {2, 3} THEN PJRaises("DeviceNotReadyError")
       ELSE PJReturns(Get(PJ_power_state, IntOf(payload)))

\* the else clause of get_input_status: the name of the terminal, or None
\* when the payload is the code of no input
PJ_get_input_status(d, result) ==
    LET payload == rstrip(SubSeq(result, 8, Len(result)))
    IN IF \E i \in 1..Len(d) : d[i][2] = payload
       THEN PJReturns(key_for_value(d, payload))
       ELSE PJReturns(None)

\* a list comprehension over the even indexes of data (0-based): the hour
\* counts, in the order of the reply
RECURSIVE EvenItems(_)
EvenItems(items) ==
    IF items = <<>> THEN <<>>
    ELSE <<Head(items)>> \o (IF Len(items) <= 2 THEN <<>> ELSE EvenItems(Tail(Tail(items))))

\* the else clause of get_lamp_info: data = result[7:].rstrip().split();
\* int(data[0]) for one pair; otherwise a list that starts with int(data[0])
\* and gets int(datum) appended for every even index, 0 included
PJ_get_lamp_info(result) ==
    LET items == SplitWs(rstrip(SubSeq(result, 8, Len(result))))
        lamp_count == Len(items) \div 2
    IN IF items = <<>> THEN PJRaises("IndexError")
       ELSE IF ~IsInt(items[1]) THEN PJRaises("ValueError")
       ELSE IF lamp_count = 1 THEN PJReturns([list |-> FALSE, hours |-> <<IntOf(items[1])>>])
       ELSE IF \E i \in 1..Len(EvenItems(items)) : ~IsInt(EvenItems(items)[i])
       THEN PJRaises("ValueError")
       ELSE PJReturns([list |-> TRUE,
                       hours |-> <<IntOf(items[1])>>
                                 \o [i \in 1..Len(EvenItems(items)) |-> IntOf(EvenItems(items)[i])]])

\* what an operation makes of the result of __cmd
PJ_finish(op, arg, d, result) ==
    IF PJ__cmd_result(result) # PJNoOutcome THEN PJ__cmd_result(result)
    ELSE CASE op \in {"power_on", "power_off", "power_toggle"} -> PJReturns("True")
           [] op = "get_power_status" -> PJ_get_power_status(result)
           [] op = "get_input_status" -> PJ_get_input_status(d, result)
           [] op = "get_lamp_info" -> PJ_get_lamp_info(result)
           [] op = "select_input" -> PJReturns(key_for_value(d, Get(d, arg)))

\* the operations and their arguments
PJCalls ==
    [op : {"power_on", "power_off", "get_power_status", "get_input_status",
           "power_toggle", "get_lamp_info"},
     arg : {None}]
    \cup [op : {"select_input"}, arg : PJInputNames]

\* '"power on" in power_status.casefold()' and '"standby" in
\* power_status.casefold()', for the strings of power_state
PJPowerOnIn(power_status) == power_status \in {"Power on"}
PJStandbyIn(power_status) == power_status \in {"Standby"}

\* power_toggle after get_power_status returned: the operation it calls
\* next, or "none" (it returns False)
PJ_power_toggle_next(power_status) ==
    IF PJPowerOnIn(power_status) THEN "power_off"
    ELSE IF PJStandbyIn(power_status) THEN "power_on"
    ELSE "none"

\* cmd_bytes of __cmd: cmd.value, then the parameter and a carriage return
\* if there is a parameter
PJ_frame(op, arg, d) ==
    CASE op = "power_on" -> PJLinkCommand.POWER_ON
      [] op = "power_toggle" -> PJLinkCommand.POWER_STATUS
      [] op = "power_off" -> PJLinkCommand.POWER_OFF
      [] op = "get_power_status" -> PJLinkCommand.POWER_STATUS
      [] op = "get_input_status" -> PJLinkCommand.INPUT_STATUS
      [] op = "get_lamp_info" -> PJLinkCommand.LAMP_INFO
      [] op = "select_input" -> PJLinkCommand.SWITCH_INPUT \o Get(d, arg) \o <<"CR">>

\* An operation is called: __cmd makes the connection and sends the frame;
\* select_input raises KeyError for a name that is not in self.inputs.
\* An OSError of create_connection or send is re-raised.
PJCall(c, io) ==
    /\ pj_pc = "idle"
    /\ pj_op' = c.op
    /\ pj_arg' = c.arg
    /\ pj_recvd' = <<>>
    /\ IF c.op = "select_input" /\ ~HasKey(pj_inputs, c.arg)
       THEN /\ pj_pc' = "done"
            /\ pj_outcome' = PJRaises("KeyError")
            /\ pj_sent' = <<>>
            /\ UNCHANGED pj_connection
       ELSE /\ pj_connection' = (IF io = "connect_fails" THEN pj_connection ELSE "open")
            /\ pj_sent' = (IF io = "ok" THEN <<PJ_frame(c.op, c.arg, pj_inputs)>> ELSE <<>>)
            /\ IF io = "ok"
               THEN pj_pc' = "sent" /\ pj_outcome' = PJNoOutcome
               ELSE pj_pc' = "done" /\ pj_outcome' = PJRaises("OSError")
    /\ UNCHANGED <<pj_inputs, pj_rest>>

\* junk_data = self.comms.recv(BUFF_SIZE)
PJRecvJunk(junk) ==
    /\ pj_pc = "sent"
    /\ pj_pc' = "junk"
    /\ pj_recvd' = Append(pj_recvd, junk)
    /\ UNCHANGED <<pj_inputs, pj_op, pj_arg, pj_sent, pj_connection, pj_outcome, pj_rest>>

\* result = self.comms.recv(BUFF_SIZE), close, the tests of __cmd and the rest
\* of the operation.  A connection that returned b'' returns b'' again, and
\* one whose reply was read by the first recv() has nothing more to read: the
\* second recv() waits until the projector closes the connection and then
\* returns b''.
\* power_toggle, when its get_power_status returned "Power on" or "Standby",
\* goes on to the __cmd of power_off or power_on.
PJRecvResult(result, io) ==
    /\ pj_pc = "junk"
    /\ pj_recvd[Len(pj_recvd)] \notin {PJGreeting} => result = <<>>
    /\ pj_recvd' = Append(pj_recvd, result)
    /\ LET status == IF PJ__cmd_result(result) # PJNoOutcome THEN PJ__cmd_result(result)
                     ELSE PJ_get_power_status(result)
           toggles == pj_op = "power_toggle" /\ Len(pj_recvd) = 1
       IN IF toggles /\ status.kind = "raise"
          THEN /\ pj_pc' = "done"
               /\ pj_connection' = "closed"
               /\ pj_outcome' = status
               /\ UNCHANGED pj_sent
          ELSE IF toggles /\ PJ_power_toggle_next(status.value) = "none"
          THEN /\ pj_pc' = "done"
               /\ pj_connection' = "closed"
               /\ pj_outcome' = PJReturns("False")
               /\ UNCHANGED pj_sent
          ELSE IF toggles
          THEN /\ pj_connection' = (IF io = "connect_fails" THEN "closed" ELSE "open")
               /\ pj_sent' = (IF io = "ok"
                              THEN Append(pj_sent, PJ_frame(PJ_power_toggle_next(status.value),
                                                            None, pj_inputs))
                              ELSE pj_sent)
               /\ IF io = "ok"
                  THEN pj_pc' = "sent" /\ UNCHANGED pj_outcome
                  ELSE pj_pc' = "done" /\ pj_outcome' = PJRaises("OSError")
          ELSE /\ pj_pc' = "done"
               /\ pj_connection' = "closed"
               /\ pj_outcome' = PJ_finish(pj_op, pj_arg, pj_inputs, result)
               /\ UNCHANGED pj_sent
    /\ UNCHANGED <<pj_inputs, pj_op, pj_arg, pj_rest>>

\* either recv() raises OSError: __cmd re-raises it without closing
PJRecvFails ==
    /\ pj_pc \in {"sent", "junk"}
    /\ pj_pc' = "done"
    /\ pj_outcome' = PJRaises("OSError")
    /\ UNCHANGED <<pj_inputs, pj_op, pj_arg, pj_sent, pj_recvd, pj_connection,
                   pj_rest>>

\* the caller has the outcome; the next operation may be called
PJReturn ==
    /\ pj_pc = "done"
    /\ pj_pc' = "idle"
    /\ pj_sent' = <<>>
    /\ pj_recvd' = <<>>
    /\ pj_outcome' = PJNoOutcome
    /\ UNCHANGED <<pj_inputs, pj_op, pj_arg, pj_connection, pj_rest>>

InitPJLink ==
    /\ P3000Idle /\ VP734Idle /\ TcpIdle /\ NECIdle /\ CkIdle /\ SiIdle /\ MdIdle /\ LastIdle
    /\ pj_inputs \in PJInputs
    /\ pj_pc = "idle"
    /\ pj_op = "none"
    /\ pj_arg = None
    /\ pj_sent = <<>>
    /\ pj_recvd = <<>>
    /\ pj_connection = "closed"
    /\ pj_outcome = PJNoOutcome

NextPJLink ==
    \/ \E c \in PJCalls, io \in NECIO : PJCall(c, io)
    \/ \E junk \in PJJunk : PJRecvJunk(junk)
    \/ \E result \in PJResults, io \in NECIO : PJRecvResult(result, io)
    \/ PJRecvFails
    \/ PJReturn

SpecPJLink == InitPJLink /\ [][NextPJLink]_vars

-----------------------------------------------------------------------------
(* Properties of the PJLink driver.                                          *)

\* C14: when the read of the response returns zero bytes the operation fails
\* with a connection error; an empty response is never reported to the
\* caller as success.
C14_EmptyResponseFails ==
    (pj_pc = "done" /\ Len(pj_recvd) = 2 /\ pj_recvd[2] = <<>>)
        => (pj_outcome.kind = "raise" /\ pj_outcome.value = "OSError")

\* the second recv() has returned and the operation has ended
PJDecoded == pj_pc = "done" /\ Len(pj_recvd) \in {2, 4}

\* C22: a reply containing ERR1, ERR2, ERR3 or ERR4 raises BadCommandError,
\* OutOfRangeError, DeviceNotReadyError or CommandFailureError respectively,
\* four distinct classes; a reply containing none of them raises none of
\* these from __cmd and reaches the operation as the payload (power_on,
\* power_off, select_input and get_input_status return; get_power_status
\* decodes it, and so do power_toggle before its second command and
\* get_lamp_info).
C22_ErrLiteralsRaise ==
    PJDecoded =>
        LET result == pj_recvd[Len(pj_recvd)]
            has(n) == Contains(result, <<"E", "R", "R", n>>)
        IN /\ has("1") => pj_outcome = PJRaises("BadCommandError")
           /\ (has("2") /\ ~has("1")) => pj_outcome = PJRaises("OutOfRangeError")
           /\ (has("3") /\ ~has("1") /\ ~has("2")) => pj_outcome = PJRaises("DeviceNotReadyError")
           /\ (has("4") /\ ~has("1") /\ ~has("2") /\ ~has("3"))
                 => pj_outcome = PJRaises("CommandFailureError")
           /\ ~(has("1") \/ has("2") \/ has("3") \/ has("4")) =>
                 IF pj_op = "get_power_status"
                 THEN pj_outcome = PJ_get_power_status(result)
                 ELSE IF pj_op = "get_lamp_info"
                 THEN pj_outcome.kind = "raise" =>
                         pj_outcome.value \in {"ValueError", "IndexError"}
                 ELSE IF pj_op = "power_toggle" /\ Len(pj_recvd) = 2
                 THEN \/ pj_outcome = PJ_get_power_status(result)
                      \/ /\ PJ_get_power_status(result).kind = "return"
                         /\ pj_outcome = PJRaises("OSError")
                 ELSE pj_outcome.kind = "return"

\* a reply with ERR3 has raised DeviceNotReadyError and one with ERR4
\* would raise another class
C22_Witness ==
    /\ PJDecoded
    /\ Contains(pj_recvd[2], <<"E", "R", "R", "3">>)
    /\ pj_outcome = PJRaises("DeviceNotReadyError")
    /\ pj_op = "power_on"

-----------------------------------------------------------------------------
(* The checksum of utils.byteops and of NEC.__checksum under the replacement *)
(* of one byte of a frame.                                                   *)

\* a checksum that keeps seven bits of the sum
checksum_7bit(vals) == SumOf(vals) % 128

\* checksum(vals) of utils.byteops, for bytes or a list: sum(i for i in vals) & 0xFF
checksum(vals) == SumOf(vals) % 256

\* the values of a byte
Bytes == 0..255

\* a frame without its last byte
WithoutChecksum(frame) == SubSeq(frame, 1, Len(frame) - 1)

\* The opcode and parameter bytes of the frames of the NEC driver: the fixed
\* commands, SWITCH_INPUT with each default input code, LAMP_INFO with each
\* lamp and datum.
CkFrames ==
    {WithoutChecksum(c) : c \in NECFixedCommands}
    \cup {add_params(Command.SWITCH_INPUT, <<StrParam(NEC_default_inputs[i][2])>>) :
            i \in 1..Len(NEC_default_inputs)}
    \cup {add_params(Command.LAMP_INFO, <<EnumParam(lamp), EnumParam(datum)>>) :
            lamp \in {Lamp.LAMP_1, Lamp.LAMP_2},
            datum \in {LampInfo.LAMP_USAGE, LampInfo.LAMP_LIFE}}

\* byte i of the frame is replaced by a different value b and the checksum
\* is computed again
CkReplace(i, b) ==
    /\ ck_vals = ck_orig
    /\ i \in 1..Len(ck_vals)
    /\ b # ck_vals[i]
    /\ ck_vals' = [ck_vals EXCEPT ![i] = b]
    /\ ck_sum' = checksum(ck_vals')
    /\ UNCHANGED <<ck_orig, ck_orig_sum, ck_rest>>

InitChecksum ==
    /\ P3000Idle /\ VP734Idle /\ TcpIdle /\ NECIdle /\ PJIdle /\ SiIdle /\ MdIdle /\ LastIdle
    /\ ck_orig \in CkFrames
    /\ ck_orig_sum = checksum(ck_orig)
    /\ ck_vals = ck_orig
    /\ ck_sum = ck_orig_sum

NextChecksum == \E i \in 1..8, b \in Bytes : CkReplace(i, b)

SpecChecksum == InitChecksum /\ [][NextChecksum]_vars

\* the positions at which two frames of one length differ
DiffersAt(a, b) == {i \in 1..Len(a) : a[i] # b[i]}

\* C17: for the sum-modulo-256 checksum, replacing any single opcode or
\* parameter byte of a frame by a different value changes the checksum byte,
\* as computed by utils.byteops.checksum and by NEC.__checksum.
C17_SingleByteChangesChecksum ==
    Cardinality(DiffersAt(ck_orig, ck_vals)) = 1
        => /\ ck_sum # ck_orig_sum
           /\ NEC__checksum(ck_vals) # NEC__checksum(ck_orig)

\* a byte has been replaced by one that differs from it by 128, in a frame
\* with a parameter
C17_Witness ==
    /\ Len(ck_orig) > Len(Command.SWITCH_INPUT)
    /\ \E i \in 1..Len(ck_orig) :
          /\ DiffersAt(ck_orig, ck_vals) = {i}
          /\ ck_vals[i] = (ck_orig[i] + 128) % 256
    /\ ck_sum = checksum(ck_vals)

(***************************************************************************)
(* NEC.select_input of drivers/projector/NEC.py                            *)
(***************************************************************************)

\* class Input(Enum), in the order of its definition: name and byte.
\* DISPLAYPORT_ALT repeats the value of DIGITAL_2.
Input ==
    << <<"RGB_1", 1>>, <<"RGB_2", 2>>,
       <<"DIGITAL_1", 26>>, <<"DIGITAL_1_ALT", 161>>,
       <<"DIGITAL_2", 27>>, <<"DIGITAL_2_ALT", 162>>,
       <<"VIDEO_1", 6>>, <<"VIDEO_2", 11>>, <<"VIDEO_3", 16>>,
       <<"DISPLAYPORT", 166>>, <<"DISPLAYPORT_ALT", 27>> >>

\* Input.<name> and Input[name]: an Enum gives a name whose value was
\* defined before as an alias of the first member with that value, so
\* what is obtained is that first member (its .name is the first name)
InputMember(name) == key_for_value(Input, Get(Input, name))

\* input_.value
InputValue(member) == Get(Input, member)

\* '"DIGITAL" in input_name or "DISPLAYPORT" in input_name'
InputFamily(member) ==
    member \in {"DIGITAL_1", "DIGITAL_1_ALT", "DIGITAL_2", "DIGITAL_2_ALT", "DISPLAYPORT"}

\* a second attempt that would repeat the requested input
input_alt_same(member) == member

\* input_alt: Input[input_name + '_ALT'] when the name has no "_ALT",
\* Input[input_name.replace('_ALT', '')] when it has
input_alt(member) ==
    CASE member = "DIGITAL_1" -> InputMember("DIGITAL_1_ALT")
      [] member = "DIGITAL_1_ALT" -> InputMember("DIGITAL_1")
      [] member = "DIGITAL_2" -> InputMember("DIGITAL_2_ALT")
      [] member = "DIGITAL_2_ALT" -> InputMember("DIGITAL_2")
      [] member = "DISPLAYPORT" -> InputMember("DISPLAYPORT_ALT")

\* the frame __cmd builds for SWITCH_INPUT with one parameter:
\* cmd.value + p.value + bytes([checksum(cmd_str)])
SiFrame(member) ==
    LET cmd_str == Command.SWITCH_INPUT \o <<InputValue(member)>>
    IN cmd_str \o <<checksum(cmd_str)>>

\* the names a caller can write for the argument
SiInputNames == {Input[i][1] : i \in 1..Len(Input)}

\* what the projector answers to SWITCH_INPUT
SiResponses ==
    {<<34, 3, 1, 32, 1, 0, 71>>, <<82, 0, 1, 32, 0, 115>>, <<162, 0>>, <<34, 0>>, <<>>,
     NECErrorResponse(1, 1), NECErrorResponse(1, 0), NECErrorResponse(2, 13),
     NECErrorResponse(4, 4)}

\* "except Exception as inst: print(inst); sys.exit(1)" of __cmd
SiExit == NECRaises("SystemExit", <<1>>)

\* select_input(input_) is called and its first __cmd sends the frame of
\* input_; a failing connect or send ends in sys.exit(1).
SiCall(name, io) ==
    /\ si_pc = "idle"
    /\ si_input' = InputMember(name)
    /\ si_results' = <<>>
    /\ IF io = "connect_fails"
       THEN si_sent' = <<>> /\ si_pc' = "done" /\ si_outcome' = SiExit
       ELSE IF io = "send_fails"
       THEN si_sent' = <<>> /\ si_pc' = "done" /\ si_outcome' = SiExit
       ELSE /\ si_sent' = <<SiFrame(InputMember(name))>>
            /\ si_pc' = "first"
            /\ si_outcome' = NECNoOutcome
    /\ UNCHANGED si_rest

\* recv() returns in the first __cmd: (0x01, 0x01) for an input of the
\* DIGITAL/DISPLAYPORT family starts the second __cmd with input_alt; another
\* result of length 2 raises; everything else returns input_.
SiReceiveFirst(result, io) ==
    /\ si_pc = "first"
    /\ si_results' = Append(si_results, result)
    /\ LET decoded == NEC__cmd_decode(result)
       IN IF decoded.raised # None
          THEN si_pc' = "done" /\ si_outcome' = SiExit /\ UNCHANGED si_sent
          ELSE IF InputFamily(si_input) /\ decoded.type = "tuple" /\ decoded.val = <<1, 1>>
          THEN IF io = "ok"
               THEN /\ si_sent' = Append(si_sent, SiFrame(input_alt(si_input)))
                    /\ si_pc' = "again"
                    /\ UNCHANGED si_outcome
               ELSE si_pc' = "done" /\ si_outcome' = SiExit /\ UNCHANGED si_sent
          ELSE /\ si_pc' = "done"
               /\ UNCHANGED si_sent
               /\ si_outcome' = IF Len(decoded.val) = 2 THEN raise_error(decoded)
                                ELSE NECReturns(si_input)
    /\ UNCHANGED <<si_input, si_rest>>

\* recv() returns in the second __cmd: a result of length 2 raises,
\* everything else returns input_alt.
SiReceiveAgain(result) ==
    /\ si_pc = "again"
    /\ si_results' = Append(si_results, result)
    /\ si_pc' = "done"
    /\ LET decoded == NEC__cmd_decode(result)
       IN si_outcome' = IF decoded.raised # None THEN SiExit
                        ELSE IF Len(decoded.val) = 2 THEN raise_error(decoded)
                        ELSE NECReturns(input_alt(si_input))
    /\ UNCHANGED <<si_input, si_sent, si_rest>>

\* recv() raises: __cmd prints the exception and exits
SiRecvFails ==
    /\ si_pc \in {"first", "again"}
    /\ si_pc' = "done"
    /\ si_outcome' = SiExit
    /\ UNCHANGED <<si_input, si_sent, si_results, si_rest>>

\* the caller takes the outcome; the next call can start
SiReturn ==
    /\ si_pc = "done"
    /\ si_pc' = "idle"
    /\ si_input' = None
    /\ si_sent' = <<>>
    /\ si_results' = <<>>
    /\ si_outcome' = NECNoOutcome
    /\ UNCHANGED si_rest

InitSelectInput ==
    /\ P3000Idle /\ VP734Idle /\ TcpIdle /\ NECIdle /\ PJIdle /\ CkIdle /\ MdIdle /\ LastIdle
    /\ si_pc = "idle"
    /\ si_input = None
    /\ si_sent = <<>>
    /\ si_results = <<>>
    /\ si_outcome = NECNoOutcome

NextSelectInput ==
    \/ \E name \in SiInputNames, io \in NECIO : SiCall(name, io)
    \/ \E result \in SiResponses, io \in NECIO : SiReceiveFirst(result, io)
    \/ \E result \in SiResponses : SiReceiveAgain(result)
    \/ SiRecvFails
    \/ SiReturn

SpecSelectInput == InitSelectInput /\ [][NextSelectInput]_vars

\* the input code a SWITCH_INPUT frame carries
SiCode(frame) == frame[Len(Command.SWITCH_INPUT) + 1]

\* what the k-th __cmd of the running call made of its response
SiDecoded(k) == NEC__cmd_decode(si_results[k])

\* the k-th response is an error response with a pair of error codes
SiErrorPair(k) ==
    /\ Len(si_results) >= k
    /\ SiDecoded(k).raised = None
    /\ SiDecoded(k).type = "tuple"
    /\ Len(SiDecoded(k).val) = 2

\* the code that goes with each code of the HDMI/DisplayPort family
SiAlternate ==
    << <<26, 161>>, <<161, 26>>, <<27, 162>>, <<162, 27>>, <<166, 27>> >>

C24_ConnectionClosedAfterOperation ==
    nec_pc = "done" => nec_connection = "closed"

\* the same for PJLink
PJConnectionClosedAfterOperation ==
    pj_pc = "done" => pj_connection = "closed"

\* the same for KramerVP734, whose operations close in a finally clause
VP734ConnectionClosedAfterOperation ==
    v_pc = "done" => v_connection = "closed"

\* the power byte of the running-status response the first __cmd of the
\* running NEC operation received, or -1 when it received no such response
NECStatusByte ==
    IF /\ Len(nec_results) >= 1
       /\ Len(nec_results[1]) >= 7
       /\ nec_results[1][1] \div 16 # 10
    THEN nec_results[1][7]
    ELSE -1

\* C26: NEC.power_toggle sends one status query followed by at most one power
\* command: POWER_OFF when the status is 'Power On', POWER_ON when the status
\* is a standby state, and no power command at all (returning False) when the
\* projector reports Cooling.
C26_ToggleFollowsStatus ==
    (nec_op = "power_toggle" /\ nec_pc # "idle") =>
        /\ Len(nec_sent) <= 2
        /\ Len(nec_sent) >= 1 => nec_sent[1] = Command.STATUS
        /\ Len(nec_sent) = 2 =>
              \/ NECStatusByte = 4 /\ nec_sent[2] = Command.POWER_OFF
              \/ NECStatusByte \in {0, 6, 15, 16} /\ nec_sent[2] = Command.POWER_ON
        /\ NECStatusByte \in {0, 4, 6, 15, 16} =>
              \/ Len(nec_sent) = 2
              \/ nec_pc = "done" /\ nec_outcome = NECRaises("OSError", <<>>)
        /\ NECStatusByte = 5 =>
              /\ Len(nec_sent) = 1
              /\ nec_pc = "done"
              /\ nec_outcome = NECReturns("False")

\* the projector reported Cooling and power_toggle returned False after the
\* status query alone
C26_Witness ==
    /\ nec_op = "power_toggle"
    /\ nec_pc = "done"
    /\ NECStatusByte = 5
    /\ nec_sent = <<Command.STATUS>>
    /\ nec_outcome = NECReturns("False")

\* power_toggle has switched a projector in standby on
C26_WitnessOn ==
    /\ nec_op = "power_toggle"
    /\ nec_pc = "done"
    /\ NECStatusByte = 16
    /\ nec_sent = <<Command.STATUS, Command.POWER_ON>>
    /\ nec_outcome = NECReturns("True")

\* get_power_status of the running PJLink power_toggle was answered
\* "%1POWR=2" (cooling down) or "%1POWR=3" (warming up)
PJBusyReported ==
    /\ pj_op = "power_toggle"
    /\ Len(pj_recvd) >= 2
    /\ pj_recvd[2] \in {PJHeader \o <<"2", "CR">>, PJHeader \o <<"3", "CR">>}

\* C27: PJLink.power_toggle returns False, without sending a power command,
\* when the projector reports that it is cooling down or warming up.
C27_ToggleReturnsFalseWhenBusy ==
    PJBusyReported =>
        /\ pj_pc = "done"
        /\ pj_sent = <<PJLinkCommand.POWER_STATUS>>
        /\ pj_outcome = PJReturns("False")

\* what power_toggle does then: no power command, and DeviceNotReadyError
PJToggleRaisesWhenBusy ==
    PJBusyReported =>
        /\ pj_pc = "done"
        /\ pj_sent = <<PJLinkCommand.POWER_STATUS>>
        /\ pj_outcome = PJRaises("DeviceNotReadyError")

\* the k-th __cmd of the running PJLink operation received a result with one
\* of the four error strings
PJErrorAt(k) ==
    /\ Len(pj_recvd) >= 2 * k
    /\ \E n \in {"1", "2", "3", "4"} : Contains(pj_recvd[2 * k], <<"E", "R", "R", n>>)

NECErrorAt(k) ==
    /\ Len(nec_results) >= k
    /\ NEC__cmd_decode(nec_results[k]).raised = None
    /\ NEC__cmd_decode(nec_results[k]).type = "tuple"
    /\ Len(NEC__cmd_decode(nec_results[k]).val) = 2

\* the same for NEC, where get_lamp_info and power_toggle call __cmd up to twice
NECOneFramePerCmd ==
    nec_pc # "idle" =>
        /\ Len(nec_sent) <= (IF nec_op \in {"get_lamp_info", "power_toggle"} THEN 2 ELSE 1)
        /\ nec_pc = "sent" => Len(nec_sent) = Len(nec_results) + 1
        /\ nec_pc = "done" => Len(nec_sent) \in {Len(nec_results), Len(nec_results) + 1}
        /\ Len(nec_sent) = 2 => nec_sent[2] # nec_sent[1]
        /\ \A k \in 1..2 :
              NECErrorAt(k) =>
                 /\ Len(nec_sent) = k
                 /\ nec_pc = "done"
                 /\ nec_outcome.kind = "raise"

(***************************************************************************)
(* utils.merge_dicts                                                       *)
(***************************************************************************)

\* the most items a dict passed to merge_dicts has
MdMaxLen == 2

\* the keys and the values of the dicts passed to merge_dicts
MdKeys == {"A", "B", "C"}
MdValues == {1, 2}

\* the dicts: items in insertion order, no key twice
MdDicts ==
    {d \in UNION {[1..n -> MdKeys \X MdValues] : n \in 0..MdMaxLen} :
        \A i, j \in 1..Len(d) : d[i][1] = d[j][1] => i = j}

\* merged = merge_dicts(first, second)
MdMerge ==
    /\ md_merged = <<>>
    /\ md_merged' = <<merge_dicts(md_first, md_second)>>
    /\ UNCHANGED <<md_first, md_second, md_rest>>

InitMerge ==
    /\ P3000Idle /\ VP734Idle /\ TcpIdle /\ NECIdle /\ PJIdle /\ CkIdle /\ SiIdle /\ LastIdle
    /\ md_first \in MdDicts
    /\ md_second \in MdDicts
    /\ md_merged = <<>>

NextMerge == MdMerge

SpecMerge == InitMerge /\ [][NextMerge]_vars

\* the set of the keys of a dict
KeySet(d) == {d[i][1] : i \in 1..Len(d)}

\* C28: merge_dicts(first, second) has exactly the keys of first united with
\* second; every key present in first maps to first's value (also when second
\* has the key) and every key present only in second maps to second's value.
C28_MergedKeysAndValues ==
    md_merged # <<>> =>
        LET merged == md_merged[1]
        IN /\ KeySet(merged) = KeySet(md_first) \cup KeySet(md_second)
           /\ \A i, j \in 1..Len(merged) : merged[i][1] = merged[j][1] => i = j
           /\ \A k \in KeySet(md_first) : Get(merged, k) = Get(md_first, k)
           /\ \A k \in KeySet(md_second) \ KeySet(md_first) :
                 Get(merged, k) = Get(md_second, k)

\* two dicts that give a shared key different values have been merged, and
\* the second has a key of its own
C28_Witness ==
    /\ md_merged # <<>>
    /\ \E k \in KeySet(md_first) \cap KeySet(md_second) :
          /\ Get(md_first, k) # Get(md_second, k)
          /\ Get(md_merged[1], k) = Get(md_first, k)
    /\ KeySet(md_second) \ KeySet(md_first) # {}
    /\ KeySet(md_first) \ KeySet(md_second) # {}

\* C29: in the result of merge_dicts(first, second), all keys from the first
\* dict appear before the keys from the second dict in iteration order, for
\* every pair of dicts including ones that share keys.
C29_FirstKeysFirst ==
    md_merged # <<>> =>
        LET merged == md_merged[1]
        IN \A i, j \in 1..Len(merged) :
              (/\ merged[i][1] \in KeySet(md_first)
               /\ merged[j][1] \in KeySet(md_second) \ KeySet(md_first)) => i < j

\* what holds of the order: the keys that only first has come before all others
MdFirstOnlyKeysFirst ==
    md_merged # <<>> =>
        LET merged == md_merged[1]
        IN \A i, j \in 1..Len(merged) :
              (/\ merged[i][1] \in KeySet(md_first) \ KeySet(md_second)
               /\ merged[j][1] \in KeySet(md_second)) => i < j

\* the names a mapping gives to a code
NamesOf(d, code) == {d[i][1] : i \in {n \in 1..Len(d) : d[n][2] = code}}

\* C30: on success, select_input(name) returns a name that maps to the same
\* input code as the requested name, and that name is the one provided in the
\* user's configuration whenever the configuration has a name for that code,
\* otherwise the driver's default name.
C30_ReturnsConfiguredName ==
    (nec_op = "select_input" /\ nec_pc = "done" /\ nec_outcome.kind = "return") =>
        \A user \in NECUserConfigs :
            nec_inputs = NEC__init__inputs(user) =>
                LET code == Get(nec_inputs, nec_arg)
                IN /\ Get(nec_inputs, nec_outcome.value) = code
                   /\ IF NamesOf(user, code) # {}
                      THEN nec_outcome.value \in NamesOf(user, code)
                      ELSE nec_outcome.value \in NamesOf(NEC_default_inputs, code)

\* what holds: the name returned maps to the code of the requested name
NECReturnsNameOfSameCode ==
    (nec_op = "select_input" /\ nec_pc = "done" /\ nec_outcome.kind = "return") =>
        Get(nec_inputs, nec_outcome.value) = Get(nec_inputs, nec_arg)

(***************************************************************************)
(* SamsungExLink.__checksum and the frames of SamsungExLink.__cmd          *)
(***************************************************************************)

\* SamsungExLink.Command
ExLinkCommand ==
    [POWER_ON |-> <<8, 34, 0, 0, 0, 2>>,
     POWER_OFF |-> <<8, 34, 0, 0, 0, 1>>,
     POWER_TOGGLE |-> <<8, 34, 0, 0, 0, 0>>,
     SELECT_INPUT |-> <<8, 34, 10, 0>>,
     KEY_VOL_UP |-> <<8, 34, 1, 0, 1, 0>>,
     KEY_VOL_DN |-> <<8, 34, 1, 0, 2, 0>>,
     KEY_MUTE |-> <<8, 34, 2, 0, 0, 0>>,
     KEY_MENU |-> <<8, 34, 13, 0, 0, 26>>,
     KEY_ENTER |-> <<8, 34, 13, 0, 0, 104>>,
     KEY_RETURN |-> <<8, 34, 13, 0, 0, 88>>,
     KEY_EXIT |-> <<8, 34, 13, 0, 0, 45>>,
     KEY_UP |-> <<8, 34, 13, 0, 0, 96>>,
     KEY_DN |-> <<8, 34, 13, 0, 0, 97>>,
     KEY_LEFT |-> <<8, 34, 13, 0, 0, 101>>,
     KEY_RIGHT |-> <<8, 34, 13, 0, 0, 98>>,
     KEY_CHAN_UP |-> <<8, 34, 3, 0, 1, 0>>,
     KEY_CHAN_DN |-> <<8, 34, 3, 0, 2, 0>>,
     KEY_CHAN_SET |-> <<8, 34, 4, 0, 0>>,
     KEY_PREV_CH |-> <<8, 34, 13, 0, 0, 19>>,
     SRC_SMART_HUB |-> <<8, 34, 13, 0, 0, 140>>,
     SRC_NETFLIX |-> <<8, 34, 13, 0, 0, 243>>,
     SRC_AMAZON |-> <<8, 34, 13, 0, 0, 244>>]

\* the commands the driver sends without a parameter
ExFixedCommands ==
    {ExLinkCommand[c] : c \in DOMAIN ExLinkCommand \ {"SELECT_INPUT", "KEY_CHAN_SET"}}

\* the codes of SamsungExLink._default_inputs
Ex_default_codes ==
    {<<0, 0>>, <<1, 0>>, <<1, 1>>, <<1, 2>>, <<2, 0>>, <<2, 1>>, <<2, 2>>, <<3, 0>>,
     <<3, 1>>, <<3, 2>>, <<4, 0>>, <<4, 1>>, <<4, 2>>, <<5, 0>>, <<5, 1>>, <<5, 2>>,
     <<5, 3>>}

\* bytes of the codes an inputs= mapping may give to its names
ExCodeBytes == {0, 5, 128, 229, 230, 231, 255}

\* cmd_bytes of __cmd before the checksum: a command alone, SELECT_INPUT with
\* an input code (select_input), KEY_CHAN_SET with bytes([channel])
\* (channel_set)
ExFrames ==
    ExFixedCommands
    \cup {ExLinkCommand.SELECT_INPUT \o code :
            code \in Ex_default_codes \cup (ExCodeBytes \X ExCodeBytes)}
    \cup {ExLinkCommand.KEY_CHAN_SET \o <<channel>> : channel \in 0..255}

ExReturns(value) == [kind |-> "return", value |-> value]
ExRaises(exc) == [kind |-> "raise", value |-> <<exc>>]

\* bytes([n]): ValueError unless 0 <= n < 256
bytes_of(n) == IF n \in 0..255 THEN ExReturns(<<n>>) ELSE ExRaises("ValueError")

\* abs()
abs(n) == IF n < 0 THEN 0 - n ELSE n

\* SamsungExLink.__checksum(_bytes)
SamsungExLink__checksum(_bytes) ==
    LET two_fifty_six == 256
        total == SumOf(_bytes)
        diff == two_fifty_six - total
    IN IF diff >= 0 THEN bytes_of(diff)
       ELSE bytes_of(two_fifty_six - abs(diff))

\* "cmd_bytes = cmd_bytes + self.__checksum(cmd_bytes)" of __cmd
ExChecksum ==
    /\ ex_out.kind = "none"
    /\ ex_out' = SamsungExLink__checksum(ex_cmd_bytes)
    /\ UNCHANGED <<ex_cmd_bytes, ex_rest>>

InitExLink ==
    /\ P3000Idle /\ VP734Idle /\ OthersIdleButLast /\ UIdle /\ AsIdle
    /\ ex_cmd_bytes \in ExFrames
    /\ ex_out = [kind |-> "none", value |-> <<>>]

NextExLink == ExChecksum

SpecExLink == InitExLink /\ [][NextExLink]_vars

\* C31: for every Samsung ExLink frame (any command constant, any input code
\* or channel byte appended), __checksum returns one byte in 0..255 such that
\* the sum of all frame bytes including the checksum is 0 modulo 256, and it
\* never raises.
C31_ChecksumClosesFrame ==
    ex_out.kind # "none" =>
        /\ ex_out.kind = "return"
        /\ Len(ex_out.value) = 1
        /\ ex_out.value[1] \in 0..255
        /\ (SumOf(ex_cmd_bytes) + ex_out.value[1]) % 256 = 0

\* the bytes of the frame sum to more than 512
ExLongSum == SumOf(ex_cmd_bytes) > 512

\* what holds: the same for every frame whose bytes sum to 512 at most, which
\* are all frames but SELECT_INPUT with a code whose two bytes sum to more
\* than 460
ExChecksumClosesShortSums ==
    (ex_out.kind # "none" /\ ~ExLongSum) =>
        /\ ex_out.kind = "return"
        /\ ex_out.value[1] \in 0..255
        /\ (SumOf(ex_cmd_bytes) + ex_out.value[1]) % 256 = 0

\* the tokens of the lamp reply the running PJLink get_lamp_info received
PJLampItems == SplitWs(rstrip(SubSeq(pj_recvd[2], 8, Len(pj_recvd[2]))))

\* get_lamp_info has returned for a reply that describes n lamps: n pairs
\* of hours and on/off
PJLampsReturned(n) ==
    /\ pj_op = "get_lamp_info"
    /\ pj_pc = "done"
    /\ pj_outcome.kind = "return"
    /\ Len(pj_recvd) = 2
    /\ Len(PJLampItems) = 2 * n

\* C32: PJLink.get_lamp_info returns a single int for a reply describing one
\* lamp and, for a reply describing n > 1 lamps, a list of exactly n hour
\* counts, one per lamp, in the order of the reply.
C32_OneCountPerLamp ==
    \A n \in 1..3 :
        PJLampsReturned(n) =>
            IF n = 1
            THEN /\ ~pj_outcome.value.list
                 /\ pj_outcome.value.hours = <<IntOf(PJLampItems[1])>>
            ELSE /\ pj_outcome.value.list
                 /\ pj_outcome.value.hours = [i \in 1..n |-> IntOf(PJLampItems[2 * i - 1])]

\* what holds: for n > 1 lamps the list has n + 1 entries, the hours of the
\* first lamp twice
PJLampListRepeatsFirst ==
    \A n \in 2..3 :
        PJLampsReturned(n) =>
            /\ pj_outcome.value.list
            /\ pj_outcome.value.hours =
                  <<IntOf(PJLampItems[1])>> \o [i \in 1..n |-> IntOf(PJLampItems[2 * i - 1])]

\* the greeting and the reply of the projector arrived in one read: the reply
PJReplyWithGreeting ==
    IF Len(pj_recvd) >= 1 /\ Len(pj_recvd[1]) > Len(PJGreeting)
       /\ SubSeq(pj_recvd[1], 1, Len(PJGreeting)) = PJGreeting
    THEN SubSeq(pj_recvd[1], Len(PJGreeting) + 1, Len(pj_recvd[1]))
    ELSE <<>>

\* C33: PJLink.__cmd returns the projector's reply to the command it sent for
\* every segmentation of the inbound stream: whether the greeting and the
\* command reply arrive in two separate reads or together in a single read,
\* the greeting is discarded and the reply is what the caller gets.
C33_ReplyReachesCaller ==
    (pj_pc = "done" /\ Len(pj_recvd) = 2 /\ pj_op # "power_toggle") =>
        /\ pj_recvd[1] = PJGreeting =>
              pj_outcome = PJ_finish(pj_op, pj_arg, pj_inputs, pj_recvd[2])
        /\ PJReplyWithGreeting # <<>> =>
              pj_outcome = PJ_finish(pj_op, pj_arg, pj_inputs, PJReplyWithGreeting)

\* what holds: the reply reaches the caller when the greeting came alone
PJSeparateReadsReachCaller ==
    (pj_pc = "done" /\ Len(pj_recvd) = 2 /\ pj_op # "power_toggle"
     /\ pj_recvd[1] = PJGreeting) =>
        pj_outcome = PJ_finish(pj_op, pj_arg, pj_inputs, pj_recvd[2])

\* C34: power_on, power_off and select_input raise and never return a
\* success whenever the first byte of the response has high nibble 0xA,
\* whatever the length of the response, and never raise the error of a pair
\* of cmd_errors whenever the high nibble is 0x2, whatever the length.
C34_NibbleNotLength ==
    (NECDecoded /\ nec_op \in {"power_on", "power_off", "select_input"}) =>
        LET nibble == NECLastResult[1] \div 16
        IN /\ nibble = 10 => nec_outcome.kind = "raise"
           /\ nibble = 2 => ~(nec_outcome.kind = "raise" /\ nec_outcome.value = "Exception")

\* what holds: a response with high nibble 0xA and both error bytes raises
NECFullErrorRaises ==
    (NECFullError /\ nec_op \in {"power_on", "power_off", "select_input"}) =>
        nec_outcome.kind = "raise"

\* what holds: a response with high nibble 0x2 is a success unless it has
\* two bytes only, for which the lookup in cmd_errors raises KeyError
NECSuccessNibble ==
    (NECDecoded /\ nec_op \in {"power_on", "power_off", "select_input"}
     /\ NECLastResult[1] \div 16 = 2) =>
        IF Len(NECLastResult) = 2
        THEN nec_outcome.kind = "raise" /\ nec_outcome.value = "KeyError"
        ELSE nec_outcome.kind = "return"

\* the SWITCH_INPUT frame select_input sent with the default input map
NECSwitchSent ==
    /\ nec_op = "select_input" /\ nec_sent # <<>>
    /\ nec_inputs = NEC_default_inputs

\* C35: the SWITCH_INPUT frame built for any input of the default input map
\* has exactly 8 bytes: the 6 bytes of the opcode, one byte whose value is
\* the code listed in the map (also for codes of 0x80 and above), and the
\* checksum of what precedes.
C35_SwitchInputFrameIs8Bytes ==
    NECSwitchSent =>
        LET frame == nec_sent[1]
            code == Get(nec_inputs, nec_arg)
        IN /\ Len(frame) = 8
           /\ SubSeq(frame, 1, 6) = Command.SWITCH_INPUT
           /\ frame[7] = code[1]
           /\ frame[8] = NEC__checksum(SubSeq(frame, 1, 7))

\* what holds: the frame is the opcode, the UTF-8 encoding of the code (one
\* byte below 0x80, two bytes from 0x80 on) and the checksum
NECSwitchFrameEncoded ==
    NECSwitchSent =>
        LET frame == nec_sent[1]
            code == Get(nec_inputs, nec_arg)
            n == IF code[1] < 128 THEN 8 ELSE 9
        IN /\ Len(frame) = n
           /\ SubSeq(frame, 1, 6) = Command.SWITCH_INPUT
           /\ code[1] < 128 => frame[7] = code[1]
           /\ frame[n] = NEC__checksum(SubSeq(frame, 1, n - 1))

\* C36: input_status goes on to the next candidate query only after the
\* previous one was answered ERR 002; a reply that reports no error ends the
\* probing, also when it cannot be parsed into routes.
C36_NextQueryOnlyAfter002 ==
    [][(p_op = "input_status" /\ variant = "avctls" /\ p_index' = p_index + 1)
          => Is002(p_replies'[Len(p_replies')])]_vars

\* what holds: input_status goes on after ERR 002 and after a reply without
\* ERR that holds no ROUTE and no parseable VID or AV routing
InputStatusGoesOnWithoutRoutes ==
    [][(p_op = "input_status" /\ variant = "avctls" /\ p_index' = p_index + 1)
          => LET reply == p_replies'[Len(p_replies')]
             IN \/ Is002(reply)
                \/ /\ IsSuccess(reply)
                   /\ ~Contains(reply.response, <<"R", "O", "U", "T", "E">>)
                   /\ ~VidMatch(reply.response)]_vars

-----------------------------------------------------------------------------
(* KramerP3000.select_input over TCP, with a switcher that also emits         *)
(* messages nobody asked for (a front-panel button was pressed).             *)

\* the input selected and the candidate commands for it
UInputName == "1"
UCandidates ==
    select_try_in_order(Get(_default_inputs, UInputName), Get(_default_outputs, "ALL"))

\* the switcher's acknowledgement of a command: the command echoed after
\* the response prologue
UAck(k) ==
    <<"~", "0", "1", "@">> \o SubSeq(UCandidates[k], 2, Len(UCandidates[k]) - 1)
    \o <<"CR", "LF">>

\* its error responses: command not available, parameter out of range
UErr(code) == <<"~", "0", "1", "@", "E", "R", "R", " ", "0", "0", code, "CR", "LF">>

\* what the switcher may answer to the k-th candidate
UReplies(k) == {UAck(k), UErr("2"), UErr("3")}

\* the message it emits when input 2 is selected on the front panel
UUnsolicited == <<"~", "0", "1", "@", "V", "I", "D", " ", "2", ">", "1", "CR", "LF">>

\* the most messages it emits unasked after the reset of the input buffer
MaxUnsolicited == 2

\* the bytes of a sequence of messages
RECURSIVE UBytes(_)
UBytes(msgs) == IF msgs = <<>> THEN <<>> ELSE Head(msgs).bytes \o UBytes(Tail(msgs))

\* the unsolicited messages among them
UUnasked(msgs) == Len(SelectSeq(msgs, LAMBDA m : m.src = "unsolicited"))

\* the unsolicited messages emitted since the input buffer was reset
RECURSIVE UUnaskedRead(_)
UUnaskedRead(reads_) ==
    IF reads_ = <<>> THEN 0 ELSE UUnasked(Head(reads_)) + UUnaskedRead(Tail(reads_))
UUnaskedSinceReset == UUnasked(u_rx) + UUnaskedRead(u_buffer)

\* select_input up to reset_input_buffer: the lookups and open_connection,
\* which makes a new socket
UOpen ==
    /\ u_pc = "idle"
    /\ u_pc' = "reset"
    /\ u_k' = 1
    /\ u_rx' = <<>>
    /\ u_pending' = <<>>
    /\ u_buffer' = <<>>
    /\ u_acks' = <<>>
    /\ u_outcome' = NoOutcome
    /\ UNCHANGED u_rest

\* reset_input_buffer: select with timeout 0, whatever is waiting is read
\* and dropped
UReset ==
    /\ u_pc = "reset"
    /\ u_pc' = "send"
    /\ u_rx' = <<>>
    /\ UNCHANGED <<u_k, u_pending, u_buffer, u_acks, u_outcome, u_rest>>

\* __try_cmd up to recv(): the candidate is sent
USend ==
    /\ u_pc = "send"
    /\ u_pc' = "recv"
    /\ u_pending' = Append(u_pending, u_k)
    /\ UNCHANGED <<u_k, u_rx, u_buffer, u_acks, u_outcome, u_rest>>

\* recv() once select reports input: everything waiting is read; __try_cmd
\* and the loop body classify it, and the loop goes on, returns or raises
\* (the finally clause closes the connection).
URecv ==
    /\ u_pc = "recv"
    /\ u_rx # <<>>
    /\ u_buffer' = Append(u_buffer, u_rx)
    /\ u_rx' = <<>>
    /\ LET response == UBytes(u_rx)
           result == __try_cmd(response)
           branch == select_input_branch("avctls", result, response)
       IN IF branch = "continue" /\ u_k < Len(UCandidates)
          THEN u_k' = u_k + 1 /\ u_pc' = "send" /\ UNCHANGED u_outcome
          ELSE /\ u_pc' = "done"
               /\ u_k' = u_k
               /\ u_outcome' =
                     IF branch = "continue" THEN [kind |-> "return", value |-> None]
                     ELSE IF branch = "return"
                     THEN [kind |-> "return",
                           value |-> select_input_value("avctls", _default_inputs, UInputName)]
                     ELSE select_input_except("avctls", branch)
    /\ UNCHANGED <<u_pending, u_acks, u_rest>>

\* the switcher answers the oldest command it has not answered yet
UDeviceAnswer(reply) ==
    /\ u_pc = "recv"
    /\ u_pending # <<>>
    /\ reply \in UReplies(Head(u_pending))
    /\ u_pending' = Tail(u_pending)
    /\ u_acks' = Append(u_acks, reply)
    /\ u_rx' = Append(u_rx, [src |-> "answer", bytes |-> reply])
    /\ UNCHANGED <<u_pc, u_k, u_buffer, u_outcome, u_rest>>

\* the switcher emits a message of its own on the open connection
UDeviceEmit ==
    /\ u_pc \in {"reset", "send", "recv"}
    /\ IF u_pc = "reset" THEN u_rx = <<>> ELSE UUnaskedSinceReset < MaxUnsolicited
    /\ u_rx' = Append(u_rx, [src |-> "unsolicited", bytes |-> UUnsolicited])
    /\ UNCHANGED <<u_pc, u_k, u_pending, u_buffer, u_acks, u_outcome, u_rest>>

\* the caller has the outcome; the driver is ready for the next call
UReturn ==
    /\ u_pc = "done"
    /\ u_pc' = "idle"
    /\ u_k' = 1
    /\ u_rx' = <<>>
    /\ u_pending' = <<>>
    /\ u_buffer' = <<>>
    /\ u_acks' = <<>>
    /\ u_outcome' = NoOutcome
    /\ UNCHANGED u_rest

InitUnsolicited ==
    /\ P3000Idle /\ VP734Idle /\ OthersIdleButLast /\ ExIdle /\ AsIdle
    /\ UIdle

NextUnsolicited ==
    \/ UOpen
    \/ UReset
    \/ USend
    \/ URecv
    \/ \E reply \in UReplies(1) \cup UReplies(2) \cup UReplies(3) : UDeviceAnswer(reply)
    \/ UDeviceEmit
    \/ UReturn

SpecUnsolicited == InitUnsolicited /\ [][NextUnsolicited]_vars

\* the response classified for command k is the switcher's answer to it
UAnswerRead(k) ==
    /\ k <= Len(u_acks)
    /\ u_buffer[k] = <<[src |-> "answer", bytes |-> u_acks[k]]>>

\* C37: the reply select_input classifies for a candidate command is the
\* switcher's reply to that command; a message the switcher emits unasked
\* after the input buffer was reset is never taken as the response and never
\* makes select_input report success for a command that was not acknowledged.
C37_ResponseAnswersCommand ==
    /\ \A k \in 1..Len(u_buffer) : UAnswerRead(k)
    /\ (u_pc = "done" /\ u_outcome.kind = "return" /\ u_outcome.value # None) =>
          /\ Len(u_acks) = Len(u_buffer)
          /\ u_acks[Len(u_acks)] = UAck(Len(u_acks))

\* what holds: as long as the switcher emits nothing unasked after the reset,
\* each response is the answer to its command
UQuietSwitcherAnswers ==
    UUnaskedSinceReset = 0 =>
        /\ \A k \in 1..Len(u_buffer) : UAnswerRead(k)
        /\ (u_pc = "done" /\ u_outcome.kind = "return" /\ u_outcome.value # None) =>
              u_acks[Len(u_acks)] = UAck(Len(u_acks))

\* what holds: an error answer that was read is never reported as a success,
\* with or without an unsolicited message read along with it
UErrorReadIsReported ==
    (u_pc = "done" /\ Len(u_acks) = Len(u_buffer)
     /\ \E i \in 1..Len(u_buffer[Len(u_buffer)]) :
           /\ u_buffer[Len(u_buffer)][i].src = "answer"
           /\ u_buffer[Len(u_buffer)][i].bytes # UAck(Len(u_acks)))
        => ~(u_outcome.kind = "return" /\ u_outcome.value # None)

-----------------------------------------------------------------------------
(* SerialAsyncIOReaderWriter (extra/VP734_async_serial.py): data_received     *)
(* runs on the event loop, read_response on a thread of its own, and both    *)
(* assign self.read_buffer without a lock.  Each thread may be preempted     *)
(* between reading self.read_buffer and assigning it.                        *)

\* the byte streams the switcher sends
AsStreams ==
    { <<"Z", "CR", "LF", ">", "Y", "CR", "LF", ">">>,
      <<"Z", "1", "CR", "LF", ">", "Z", "2", "CR", "LF", ">">> }

\* the most bytes the serial transport hands to data_received at once
MaxChunk == 5

\* data_received is called with the next bytes of the stream and reads
\* self.read_buffer
EDataReceived(n) ==
    /\ as_epc = "idle"
    /\ n <= Len(as_todo)
    /\ as_edata' = SubSeq(as_todo, 1, n)
    /\ as_todo' = SubSeq(as_todo, n + 1, Len(as_todo))
    /\ as_received' = as_received \o SubSeq(as_todo, 1, n)
    /\ as_elocal' = as_buffer
    /\ as_epc' = "loaded"
    /\ UNCHANGED <<as_buffer, as_msgs, as_wpc, as_wend, as_wresp, as_wlocal, as_rest>>

\* it assigns self.read_buffer the sum of what it read and data
EStore ==
    /\ as_epc = "loaded"
    /\ as_buffer' = as_elocal \o as_edata
    /\ as_epc' = "idle"
    /\ as_elocal' = <<>>
    /\ as_edata' = <<>>
    /\ UNCHANGED <<as_todo, as_received, as_msgs, as_wpc, as_wend, as_wresp, as_wlocal,
                   as_rest>>

\* read_response finds a terminator in a buffer that is not empty (without
\* one it sleeps and looks again)
WFind ==
    /\ as_wpc = "idle"
    /\ Len(as_buffer) > 0
    /\ Find(as_buffer, Terminator) # 0
    /\ as_wend' = Find(as_buffer, Terminator) - 1
    /\ as_wpc' = "found"
    /\ UNCHANGED <<as_buffer, as_todo, as_received, as_msgs, as_wresp, as_wlocal,
                   as_epc, as_elocal, as_edata, as_rest>>

\* response = self.read_buffer[0:response_end]
WResponse ==
    /\ as_wpc = "found"
    /\ as_wresp' = Slice(as_buffer, 0, as_wend)
    /\ as_wpc' = "sliced"
    /\ UNCHANGED <<as_buffer, as_todo, as_received, as_msgs, as_wend, as_wlocal,
                   as_epc, as_elocal, as_edata, as_rest>>

\* it reads self.read_buffer and takes the slice after the terminator
WLoad ==
    /\ as_wpc = "sliced"
    /\ as_wlocal' = Slice(as_buffer, as_wend + 3, Len(as_buffer))
    /\ as_wpc' = "computed"
    /\ UNCHANGED <<as_buffer, as_todo, as_received, as_msgs, as_wend, as_wresp,
                   as_epc, as_elocal, as_edata, as_rest>>

\* it assigns the slice to self.read_buffer; the response is parsed
WStore ==
    /\ as_wpc = "computed"
    /\ as_buffer' = as_wlocal
    /\ as_msgs' = Append(as_msgs, as_wresp)
    /\ as_wpc' = "idle"
    /\ as_wend' = 0
    /\ as_wresp' = <<>>
    /\ as_wlocal' = <<>>
    /\ UNCHANGED <<as_todo, as_received, as_epc, as_elocal, as_edata, as_rest>>

InitAsync ==
    /\ P3000Idle /\ VP734Idle /\ OthersIdleButLast /\ ExIdle /\ UIdle
    /\ as_buffer = <<>>
    /\ as_todo \in AsStreams
    /\ as_received = <<>>
    /\ as_msgs = <<>>
    /\ as_wpc = "idle"
    /\ as_wend = 0
    /\ as_wresp = <<>>
    /\ as_wlocal = <<>>
    /\ as_epc = "idle"
    /\ as_elocal = <<>>
    /\ as_edata = <<>>

NextAsync ==
    \/ \E n \in 1..MaxChunk : EDataReceived(n)
    \/ EStore
    \/ WFind
    \/ WResponse
    \/ WLoad
    \/ WStore

SpecAsync == InitAsync /\ [][NextAsync]_vars

\* the same with threads that are never preempted between reading
\* self.read_buffer and assigning it
NextAsyncStatements ==
    /\ NextAsync
    /\ as_epc = "loaded" => as_epc' = "idle"
    /\ as_wpc = "computed" => as_wpc' = "idle"

SpecAsyncStatements == InitAsync /\ [][NextAsyncStatements]_vars

\* the messages extracted so far, each followed by its terminator
RECURSIVE AsDelivered(_)
AsDelivered(msgs) ==
    IF msgs = <<>> THEN <<>> ELSE Head(msgs) \o Terminator \o AsDelivered(Tail(msgs))

\* C38: no received byte is lost and none is delivered twice under any
\* interleaving of data_received and read_response: the messages extracted so
\* far, each followed by its terminator, followed by the remaining buffer are
\* the byte stream received so far.
C38_StreamPreserved ==
    as_epc = "idle" => AsDelivered(as_msgs) \o as_buffer = as_received

\* the same statement, which holds when neither thread is preempted between
\* reading self.read_buffer and assigning it (under SpecAsyncStatements)
AsStreamPreservedByStatements ==
    as_epc = "idle" => AsDelivered(as_msgs) \o as_buffer = as_received

\* no byte is lost: what was delivered and kept is no less than what was received
AsNothingLost ==
    as_epc = "idle" => Len(AsDelivered(as_msgs) \o as_buffer) >= Len(as_received)

\* no byte is there twice: what was delivered and kept is no more than what was received
AsNothingTwice ==
    as_epc = "idle" => Len(AsDelivered(as_msgs) \o as_buffer) <= Len(as_received)

-----------------------------------------------------------------------------
(* select_input with a name that is in no input map, for the three drivers   *)
(* that look the name up before they open a connection.                      *)

\* one driver is constructed: a KramerP3000, a KramerVP734 or a PJLink
InitSelect == InitP3000 \/ InitVP734 \/ InitPJLink

\* the operations of the driver that was constructed
NextSelect ==
    \/ vp_inputs = <<>> /\ pj_inputs = <<>> /\ NextP3000
    \/ vp_inputs # <<>> /\ NextVP734
    \/ pj_inputs # <<>> /\ NextPJLink

SpecSelect == InitSelect /\ [][NextSelect]_vars

\* KramerVP734.select_input is called with a name that is no input
VP734SelectUnknown ==
    \E n \in VP734InputNames, sent \in BOOLEAN :
        ~HasKey(vp_inputs, n) /\ select_input(n, sent)

\* PJLink.select_input is called with a name that is no input
PJSelectUnknown ==
    /\ pj_pc = "idle" /\ pj_pc' # "idle"
    /\ pj_op' = "select_input" /\ ~HasKey(pj_inputs, pj_arg')

\* KramerP3000.select_input (avctls) is called with a name that is no input
P3000SelectUnknown ==
    /\ p_pc = "idle" /\ p_pc' # "idle" /\ variant = "avctls"
    /\ p_op' = "select_input" /\ ~HasKey(inputs, p_input_name')

\* C39: select_input called with a name that is not in the driver's input
\* map raises an error to the caller and writes no command to the transport
\* (PJLink, KramerVP734, KramerP3000); KramerVP734 leaves the cached power,
\* input and mute as they were.
C39_UnknownInputRaisesUnsent ==
    [][/\ VP734SelectUnknown =>
             /\ v_pc' = "done" /\ v_outcome' = [kind |-> "raise", value |-> "KeyError"]
             /\ v_cmd' = <<>>
             /\ UNCHANGED <<_power_status, _input_status, _av_mute>>
       /\ PJSelectUnknown =>
             /\ pj_pc' = "done" /\ pj_outcome' = PJRaises("KeyError")
             /\ pj_sent' = <<>>
       /\ P3000SelectUnknown =>
             /\ p_pc' = "done" /\ p_outcome' = [kind |-> "raise", value |-> "KeyError"]
             /\ p_sent' = <<>>]_vars

\* KramerVP734.select_input has raised KeyError with an input in the cache
C39_Witness ==
    /\ v_pc = "done" /\ v_op = "select_input"
    /\ v_outcome = [kind |-> "raise", value |-> "KeyError"]
    /\ v_cmd = <<>>
    /\ _input_status # None

\* PJLink.select_input and KramerP3000.select_input have raised KeyError
PJUnknownRaised ==
    /\ pj_pc = "done" /\ pj_op = "select_input" /\ ~HasKey(pj_inputs, pj_arg)
    /\ pj_outcome = PJRaises("KeyError")
P3000UnknownRaised ==
    /\ p_pc = "done" /\ p_op = "select_input" /\ ~HasKey(inputs, p_input_name)
    /\ p_outcome = [kind |-> "raise", value |-> "KeyError"]

=============================================================================
